---- MODULE Spec2Model ----
(***************************************************************************)
(* Hixa: lexer (src/hixa/lexer.py), recursive-descent parser               *)
(* (src/hixa/parser.py) and tree-walking evaluator                         *)
(* (src/hixa/interpreter.py).                                              *)
(*                                                                         *)
(* Source text is a sequence of one-character strings.  Positions are      *)
(* 0-based as in the Python code: the character at position p is           *)
(* source[p + 1].                                                          *)
(***************************************************************************)
EXTENDS Integers, Sequences, FiniteSets, TLC

VARIABLES input, source, pc, lexer, parser, statements,
          program, interp, steps, last

vars == <<input, source, pc, lexer, parser, statements,
          program, interp, steps, last>>

frontVars == <<input, source, pc, lexer, parser, statements>>
evalVars == <<program, interp, steps, last>>

(***************************************************************************)
(* Bounds of the model.                                                    *)
(***************************************************************************)
MaxStmts == 3
MaxSteps == 4
MaxText == 4

(***************************************************************************)
(* Characters.                                                             *)
(***************************************************************************)
Digits == <<"0", "1", "2", "3", "4", "5", "6", "7", "8", "9">>

DigitChars == {Digits[i] : i \in 1..10}

LetterChars ==
    {"a", "b", "c", "d", "e", "f", "g", "h", "i", "j", "k", "l", "m",
     "n", "o", "p", "q", "r", "s", "t", "u", "v", "w", "x", "y", "z",
     "A", "B", "C", "D", "E", "F", "G", "H", "I", "J", "K", "L", "M",
     "N", "O", "P", "Q", "R", "S", "T", "U", "V", "W", "X", "Y", "Z"}

IdentStartChars == LetterChars \cup {"_"}

IdentChars == IdentStartChars \cup DigitChars

isspace(c) == c \in {" ", "\t", "\n", "\r"}

DigitValue(c) == CHOOSE d \in 0..9 : Digits[d + 1] = c

RECURSIVE int(_)
int(value) ==
    IF value = <<>> THEN 0
    ELSE 10 * int(SubSeq(value, 1, Len(value) - 1)) + DigitValue(value[Len(value)])

(***************************************************************************)
(* Token patterns, in the order the lexer tries them.  A pattern with an   *)
(* empty text is a character-class pattern matched by MatchLen.            *)
(***************************************************************************)
patterns ==
    << [type |-> "COMMENT", text |-> <<>>],
       [type |-> "STRING", text |-> <<>>],
       [type |-> "FLOAT", text |-> <<>>],
       [type |-> "INT", text |-> <<>>],
       [type |-> "IDENTIFIER", text |-> <<>>],
       [type |-> "ARROW", text |-> <<"-", ">">>],
       [type |-> "LESS_EQUAL", text |-> <<"<", "=">>],
       [type |-> "GREATER_EQUAL", text |-> <<">", "=">>],
       [type |-> "NOT_EQUAL", text |-> <<"!", "=">>],
       [type |-> "EQUAL", text |-> <<"=", "=">>],
       [type |-> "ASSIGN", text |-> <<"=">>],
       [type |-> "PLUS", text |-> <<"+">>],
       [type |-> "MINUS", text |-> <<"-">>],
       [type |-> "MULTIPLY", text |-> <<"*">>],
       [type |-> "DIVIDE", text |-> <<"/">>],
       [type |-> "MODULO", text |-> <<"%">>],
       [type |-> "LESS", text |-> <<"<">>],
       [type |-> "GREATER", text |-> <<">">>],
       [type |-> "AND", text |-> <<"&", "&">>],
       [type |-> "OR", text |-> <<"|", "|">>],
       [type |-> "NOT", text |-> <<"!">>],
       [type |-> "LPAREN", text |-> <<"(">>],
       [type |-> "RPAREN", text |-> <<")">>],
       [type |-> "LBRACE", text |-> <<"{">>],
       [type |-> "RBRACE", text |-> <<"}">>],
       [type |-> "LBRACKET", text |-> <<"[">>],
       [type |-> "RBRACKET", text |-> <<"]">>],
       [type |-> "SEMICOLON", text |-> <<";">>],
       [type |-> "COMMA", text |-> <<",">>],
       [type |-> "DOT", text |-> <<".">>],
       [type |-> "COLON", text |-> <<":">>],
       [type |-> "PIPE", text |-> <<"|">>] >>

keywords ==
       (<<"k", "a", "m">> :> "KAM")
    @@ (<<"g", "h", "u", "r", "a", "i", "_", "d", "i", "y", "a">> :> "GHAURAI_DIYA")
    @@ (<<"j", "o", "d", "i">> :> "JODI")
    @@ (<<"n", "o", "h", "o", "l", "e">> :> "NOHOLE")
    @@ (<<"n", "a", "h", "o", "l", "e">> :> "NAHOLE")
    @@ (<<"j", "e", "t", "i", "a", "l", "o", "i", "k", "e">> :> "JETIALOIKE")
    @@ (<<"k", "a", "r", "o", "n", "e">> :> "KARONE")
    @@ (<<"h", "e", "k", "h">> :> "HEKH")
    @@ (<<"h", "o", "s", "a">> :> "HOSA")
    @@ (<<"m", "i", "s", "a">> :> "MISA")
    @@ (<<"n", "a", "i">> :> "NAI")
    @@ (<<"a", "r", "u">> :> "ARU")
    @@ (<<"b", "a">> :> "BA")
    @@ (<<"n", "o", "t", "_", "k", "o", "r", "a">> :> "NOT_KORA")
    @@ (<<"d", "h", "o", "r", "a">> :> "DHORA")
    @@ (<<"b", "r", "e", "a", "k", "_", "k", "o", "r", "a">> :> "BREAK_KORA")
    @@ (<<"c", "o", "n", "t", "i", "n", "u", "e", "_", "k", "o", "r", "a">> :> "CONTINUE_KORA")
    @@ (<<"i", "m", "p", "o", "r", "t">> :> "IMPORT")
    @@ (<<"p", "a", "s", "s", "_", "k", "o", "r", "a">> :> "PASS_KORA")
    @@ (<<"e", "r", "r", "o", "r", "_", "k", "o", "r", "a">> :> "ERROR_KORA")
    @@ (<<"t", "r", "y", "_", "k", "o", "r", "a">> :> "TRY_KORA")
    @@ (<<"c", "a", "t", "c", "h", "_", "k", "o", "r", "a">> :> "CATCH_KORA")
    @@ (<<"f", "i", "n", "a", "l", "l", "y", "_", "k", "o", "r", "a">> :> "FINALLY_KORA")
    @@ (<<"l", "e", "t">> :> "LET")
    @@ (<<"f", "n">> :> "FN")
    @@ (<<"i", "f">> :> "IF")
    @@ (<<"e", "l", "s", "e">> :> "ELSE")
    @@ (<<"w", "h", "i", "l", "e">> :> "WHILE")
    @@ (<<"f", "o", "r">> :> "FOR")
    @@ (<<"i", "n">> :> "IN")
    @@ (<<"r", "e", "t", "u", "r", "n">> :> "RETURN")
    @@ (<<"c", "l", "a", "s", "s">> :> "CLASS")
    @@ (<<"s", "e", "l", "f">> :> "SELF")
    @@ (<<"t", "r", "u", "e">> :> "TRUE")
    @@ (<<"f", "a", "l", "s", "e">> :> "FALSE")
    @@ (<<"n", "u", "l", "l">> :> "NULL")
    @@ (<<"p", "r", "i", "n", "t">> :> "PRINT_KORA")

(***************************************************************************)
(* Regular-expression matching at a position: the length of the match,     *)
(* 0 when the pattern does not match (no pattern matches the empty text).  *)
(***************************************************************************)
RECURSIVE RunLen(_, _, _)
RunLen(src, pos, class) ==
    IF pos < Len(src) /\ src[pos + 1] \in class
    THEN 1 + RunLen(src, pos + 1, class)
    ELSE 0

RECURSIVE RunLenExcept(_, _, _)
RunLenExcept(src, pos, stop) ==
    IF pos < Len(src) /\ src[pos + 1] # stop
    THEN 1 + RunLenExcept(src, pos + 1, stop)
    ELSE 0

HasText(src, pos, text) ==
    /\ pos + Len(text) <= Len(src)
    /\ SubSeq(src, pos + 1, pos + Len(text)) = text

MatchLen(type, text, src, pos) ==
    CASE type = "COMMENT" ->
           IF HasText(src, pos, <<"/", "/">>)
           THEN 2 + RunLenExcept(src, pos + 2, "\n")
           ELSE 0
      [] type = "STRING" ->
           IF HasText(src, pos, <<"\"">>)
           THEN LET n == RunLenExcept(src, pos + 1, "\"")
                IN  IF pos + 1 + n < Len(src) THEN n + 2 ELSE 0
           ELSE 0
      [] type = "FLOAT" ->
           LET d1 == RunLen(src, pos, DigitChars)
               d2 == RunLen(src, pos + d1 + 1, DigitChars)
           IN  IF d1 > 0 /\ HasText(src, pos + d1, <<".">>) /\ d2 > 0
               THEN d1 + 1 + d2
               ELSE 0
      [] type = "INT" -> RunLen(src, pos, DigitChars)
      [] type = "IDENTIFIER" ->
           IF pos < Len(src) /\ src[pos + 1] \in IdentStartChars
           THEN 1 + RunLen(src, pos + 1, IdentChars)
           ELSE 0
      [] OTHER -> IF HasText(src, pos, text) THEN Len(text) ELSE 0

(***************************************************************************)
(* Lexer.                                                                  *)
(***************************************************************************)
Token(type_, value, line, column) ==
    [type |-> type_, value |-> value, line |-> line, column |-> column]

Lexer(src) ==
    [source |-> src, position |-> 0, line |-> 1, column |-> 1,
     tokens |-> <<>>, errors |-> <<>>]

RECURSIVE _skip_whitespace(_)
_skip_whitespace(self) ==
    IF self.position < Len(self.source) /\ isspace(self.source[self.position + 1])
    THEN IF self.source[self.position + 1] = "\n"
         THEN _skip_whitespace([self EXCEPT !.line = @ + 1, !.column = 1,
                                            !.position = @ + 1])
         ELSE _skip_whitespace([self EXCEPT !.column = @ + 1,
                                            !.position = @ + 1])
    ELSE self

_create_token(self, type_, value) ==
    LET kw == IF type_ = "IDENTIFIER" /\ value \in DOMAIN keywords
              THEN keywords[value] ELSE type_
        v == IF kw = "STRING" THEN SubSeq(value, 2, Len(value) - 1) ELSE value
    IN  Token(kw, v, self.line, self.column)

_handle_comment(self) ==
    LET n == RunLenExcept(self.source, self.position, "\n")
        comment == SubSeq(self.source, self.position + 1, self.position + n)
    IN  [raised |-> FALSE,
         token |-> Token("COMMENT", comment, self.line, self.column),
         self |-> [self EXCEPT !.position = @ + n, !.column = @ + n]]

\* The first pattern, in list order, that matches at the current position
\* (0 when none does).
FirstMatch(self) ==
    LET hits == {i \in 1..Len(patterns) :
                   MatchLen(patterns[i].type, patterns[i].text,
                            self.source, self.position) > 0}
    IN  IF hits = {} THEN 0 ELSE CHOOSE i \in hits : \A j \in hits : i <= j

_get_next_token(self) ==
    LET current_char == self.source[self.position + 1]
    IN  IF current_char = "/" /\ self.position + 1 < Len(self.source)
           /\ self.source[self.position + 2] = "/"
        THEN _handle_comment(self)
        ELSE LET i == FirstMatch(self)
             IN  IF i = 0
                 THEN [raised |-> TRUE,
                       token |-> [char |-> current_char, line |-> self.line,
                                  column |-> self.column],
                       self |-> self]
                 ELSE LET n == MatchLen(patterns[i].type, patterns[i].text,
                                        self.source, self.position)
                          value == SubSeq(self.source, self.position + 1,
                                          self.position + n)
                      IN  [raised |-> FALSE,
                           token |-> _create_token(self, patterns[i].type, value),
                           self |-> [self EXCEPT !.position = @ + n,
                                                 !.column = @ + n]]

RECURSIVE tokenize(_), tokenize_comments(_)

\* A tokenize that keeps the COMMENT tokens.
tokenize_comments(self) ==
    IF self.position < Len(self.source)
    THEN LET s1 == _skip_whitespace(self)
         IN  IF s1.position >= Len(s1.source)
             THEN [raised |-> FALSE, error |-> <<>>,
                   self |-> [s1 EXCEPT !.tokens =
                               Append(@, Token("EOF", <<>>, s1.line, s1.column))]]
             ELSE LET r == _get_next_token(s1)
                  IN  IF r.raised
                      THEN [raised |-> TRUE, error |-> <<r.token>>, self |-> r.self]
                      ELSE tokenize_comments([r.self EXCEPT !.tokens = Append(@, r.token)])
    ELSE [raised |-> FALSE, error |-> <<>>,
          self |-> [self EXCEPT !.tokens =
                      Append(@, Token("EOF", <<>>, self.line, self.column))]]

\* Lexer.tokenize: the lexer after the call, and whether the call raised
\* (then `error` is the lexical failure and nothing is returned).
tokenize(self) ==
    IF self.position < Len(self.source)
    THEN LET s1 == _skip_whitespace(self)
         IN  IF s1.position >= Len(s1.source)
             THEN [raised |-> FALSE, error |-> <<>>,
                   self |-> [s1 EXCEPT !.tokens =
                               Append(@, Token("EOF", <<>>, s1.line, s1.column))]]
             ELSE LET r == _get_next_token(s1)
                  IN  IF r.raised
                      THEN [raised |-> TRUE, error |-> <<r.token>>, self |-> r.self]
                      ELSE IF r.token.type # "COMMENT"
                           THEN tokenize([r.self EXCEPT !.tokens = Append(@, r.token)])
                           ELSE tokenize(r.self)
    ELSE [raised |-> FALSE, error |-> <<>>,
          self |-> [self EXCEPT !.tokens =
                      Append(@, Token("EOF", <<>>, self.line, self.column))]]

(***************************************************************************)
(* Python values: every value carries its type.                            *)
(***************************************************************************)
None == [t |-> "NoneType", v |-> 0]

PyInt(n) == [t |-> "int", v |-> n]

PyBool(b) == [t |-> "bool", v |-> b]

PyStr(s) == [t |-> "str", v |-> s]

\* float(text) for the digits "d+.d+": the rational <<numerator, denominator>>
\* the text denotes (binary rounding is not modelled).
RECURSIVE Pow10(_)
Pow10(n) == IF n = 0 THEN 1 ELSE 10 * Pow10(n - 1)

PyFloat(text) ==
    LET d1 == RunLen(text, 0, DigitChars)
        frac == SubSeq(text, d1 + 2, Len(text))
    IN  [t |-> "float",
         v |-> <<int(SubSeq(text, 1, d1) \o frac), Pow10(Len(frac))>>]

(***************************************************************************)
(* AST nodes (src/hixa/ast.py).  NoNode stands for a Python None where a   *)
(* node is expected.                                                       *)
(***************************************************************************)
NoNode == [node |-> "None"]

Program(stmts) == [node |-> "Program", statements |-> stmts]

FunctionDeclaration(name, parameters, return_type, body) ==
    [node |-> "FunctionDeclaration", name |-> name, parameters |-> parameters,
     return_type |-> return_type, body |-> body]

Parameter(name, type_annotation) ==
    [node |-> "Parameter", name |-> name, type_annotation |-> type_annotation]

VariableDeclaration(name, type_annotation, initializer) ==
    [node |-> "VariableDeclaration", name |-> name,
     type_annotation |-> type_annotation, initializer |-> initializer]

BinaryExpression(left, operator, right) ==
    [node |-> "BinaryExpression", left |-> left, operator |-> operator,
     right |-> right]

UnaryExpression(operator, operand) ==
    [node |-> "UnaryExpression", operator |-> operator, operand |-> operand]

Literal(value, type_) == [node |-> "Literal", type_ |-> type_, value |-> value]

Identifier(name) == [node |-> "Identifier", name |-> name]

CallExpression(callee, arguments) ==
    [node |-> "CallExpression", callee |-> callee, arguments |-> arguments]

MemberExpression(object_, property, computed) ==
    [node |-> "MemberExpression", object_ |-> object_, property |-> property,
     computed |-> computed]

IndexExpression(array, index) ==
    [node |-> "IndexExpression", array |-> array, index |-> index]

AssignmentExpression(target, operator, value) ==
    [node |-> "AssignmentExpression", target |-> target, operator |-> operator,
     value |-> value]

ArrayExpression(elements) == [node |-> "ArrayExpression", elements |-> elements]

Property(key, value) == [node |-> "Property", key |-> key, value |-> value]

ObjectExpression(properties) ==
    [node |-> "ObjectExpression", properties |-> properties]

BlockStatement(stmts) == [node |-> "BlockStatement", statements |-> stmts]

IfStatement(condition, then_branch, else_branch) ==
    [node |-> "IfStatement", condition |-> condition,
     then_branch |-> then_branch, else_branch |-> else_branch]

WhileStatement(condition, body) ==
    [node |-> "WhileStatement", condition |-> condition, body |-> body]

ForStatement(initializer, condition, increment, body) ==
    [node |-> "ForStatement", initializer |-> initializer,
     condition |-> condition, increment |-> increment, body |-> body]

ReturnStatement(value) == [node |-> "ReturnStatement", value |-> value]

(***************************************************************************)
(* Parser.  A parsing method takes the parser object and yields the parser *)
(* object after the call, the node it returned and whether it raised; a    *)
(* raised exception carries its message in exc.                            *)
(***************************************************************************)
Parser(tokens) == [tokens |-> tokens, current |-> 0, errors |-> <<>>]

NoExc == [line |-> 0, column |-> 0, message |-> ""]

Ok(self, node) == [self |-> self, node |-> node, raised |-> FALSE, exc |-> NoExc]

\* The rest of a method, K, applied to the result of a call.
With(result, K(_)) == K(result)

\* The rest of a method, K, applied to the result of a call that may raise:
\* an exception ends the method and reaches its caller.
Then(result, K(_)) == IF result.raised THEN result ELSE K(result)

peek(self) == self.tokens[self.current + 1]

\* tokens[current - 1]; Python's index -1 is the last token.
previous(self) ==
    self.tokens[IF self.current = 0 THEN Len(self.tokens) ELSE self.current]

is_at_end(self) == peek(self).type = "EOF"

check(self, type_) == IF is_at_end(self) THEN FALSE ELSE peek(self).type = type_

advance(self) ==
    IF ~is_at_end(self) THEN [self EXCEPT !.current = @ + 1] ELSE self

\* match(*types): whether a type matched, and the parser after the call.
match(self, types) ==
    IF \E type_ \in types : check(self, type_)
    THEN [ok |-> TRUE, self |-> advance(self)]
    ELSE [ok |-> FALSE, self |-> self]

\* error(token, message) records the message and returns the exception.
error(self, token, message) ==
    LET e == [line |-> token.line, column |-> token.column, message |-> message]
    IN  [self |-> [self EXCEPT !.errors = Append(@, [wrapped |-> FALSE, error |-> e])],
         exc |-> e]

\* raise self.error(token, message)
Raise(self, token, message) ==
    With(error(self, token, message), LAMBDA e :
        [self |-> e.self, node |-> NoNode, raised |-> TRUE, exc |-> e.exc])

consume(self, type_, message) ==
    IF check(self, type_)
    THEN Ok(advance(self), NoNode)
    ELSE Raise(self, peek(self), message)

SyncKeywords ==
    {"FN", "LET", "IF", "WHILE", "FOR", "RETURN",
     "KAM", "DHORA", "JODI", "JETIALOIKE", "KARONE", "GHAURAI_DIYA"}

RECURSIVE synchronize_loop(_)
synchronize_loop(self) ==
    IF is_at_end(self) THEN self
    ELSE IF previous(self).type = "SEMICOLON" THEN self
    ELSE IF peek(self).type \in SyncKeywords THEN self
    ELSE synchronize_loop(advance(self))

\* A synchronize that keeps the token at the cursor.
synchronize_stay(self) == synchronize_loop(self)

synchronize(self) == synchronize_loop(advance(self))

\* An absent (None) type annotation or return type: names are never empty.
NoText == <<>>

RECURSIVE skip_newlines(_)
skip_newlines(self) ==
    With(match(self, {"NEWLINE"}), LAMBDA m :
        IF m.ok THEN skip_newlines(m.self) ELSE self)

RECURSIVE declaration(_), function_declaration(_), parameters(_),
          parameters_loop(_, _), variable_declaration(_), statement(_),
          if_statement(_), while_statement(_), for_statement(_),
          return_statement(_), block_statement(_), block_loop(_, _),
          expression_statement(_), expression(_), assignment(_),
          or_expression(_), binary(_, _), unary(_), call(_), call_loop(_),
          finish_call(_, _), arguments_loop(_, _), primary(_),
          array_expression(_), elements_loop(_, _), object_expression(_),
          properties_loop(_, _), binary_loop(_, _)

primary(self) ==
    IF check(self, "FALSE") \/ check(self, "MISA")
      THEN Ok(advance(self), Literal(PyBool(FALSE), "boolean"))
    ELSE IF check(self, "TRUE") \/ check(self, "HOSA")
      THEN Ok(advance(self), Literal(PyBool(TRUE), "boolean"))
    ELSE IF check(self, "NULL") \/ check(self, "NAI")
      THEN Ok(advance(self), Literal(None, "null"))
    ELSE IF check(self, "INT")
      THEN Ok(advance(self), Literal(PyInt(int(peek(self).value)), "int"))
    ELSE IF check(self, "FLOAT")
      THEN Ok(advance(self), Literal(PyFloat(peek(self).value), "float"))
    ELSE IF check(self, "STRING")
      THEN Ok(advance(self), Literal(PyStr(peek(self).value), "string"))
    ELSE IF check(self, "IDENTIFIER")
      THEN Ok(advance(self), Identifier(peek(self).value))
    ELSE IF check(self, "LPAREN")
      THEN Then(expression(advance(self)), LAMBDA e :
           Then(consume(e.self, "RPAREN", "Expected ')' after expression"), LAMBDA c :
           Ok(c.self, e.node)))
    ELSE IF check(self, "LBRACKET") THEN array_expression(advance(self))
    ELSE IF check(self, "LBRACE") THEN object_expression(advance(self))
    ELSE Raise(self, peek(self), "Expected expression")

\* The loop of array_expression: elements parsed so far, then the rest.
elements_loop(self, elements) ==
    Then(expression(self), LAMBDA e :
    With(match(e.self, {"COMMA"}), LAMBDA m :
    IF m.ok THEN elements_loop(m.self, Append(elements, e.node))
    ELSE Ok(m.self, Append(elements, e.node))))

array_expression(self) ==
    Then(IF ~check(self, "RBRACKET") THEN elements_loop(self, <<>>)
         ELSE Ok(self, <<>>), LAMBDA els :
    Then(consume(els.self, "RBRACKET", "Expected ']' after array elements"), LAMBDA c :
    Ok(c.self, ArrayExpression(els.node))))

properties_loop(self, properties) ==
    Then(consume(self, "IDENTIFIER", "Expected property name"), LAMBDA c1 :
    Then(consume(c1.self, "COLON", "Expected ':' after property name"), LAMBDA c2 :
    Then(expression(c2.self), LAMBDA e :
    With(match(e.self, {"COMMA"}), LAMBDA m :
    IF m.ok
    THEN properties_loop(m.self,
             Append(properties, Property(previous(c1.self).value, e.node)))
    ELSE Ok(m.self, Append(properties, Property(previous(c1.self).value, e.node)))))))

object_expression(self) ==
    Then(IF ~check(self, "RBRACE") THEN properties_loop(self, <<>>)
         ELSE Ok(self, <<>>), LAMBDA ps :
    Then(consume(ps.self, "RBRACE", "Expected '}' after object properties"), LAMBDA c :
    Ok(c.self, ObjectExpression(ps.node))))

arguments_loop(self, arguments) ==
    Then(expression(self), LAMBDA e :
    With(match(e.self, {"COMMA"}), LAMBDA m :
    IF m.ok THEN arguments_loop(m.self, Append(arguments, e.node))
    ELSE Ok(m.self, Append(arguments, e.node))))

finish_call(self, callee) ==
    Then(IF ~check(self, "RPAREN") THEN arguments_loop(self, <<>>)
         ELSE Ok(self, <<>>), LAMBDA args :
    Then(consume(args.self, "RPAREN", "Expected ')' after arguments"), LAMBDA c :
    Ok(c.self, CallExpression(callee, args.node))))

\* The postfix loop of call(): r is the expression parsed so far.
call_loop(r) ==
    IF r.raised THEN r
    ELSE IF check(r.self, "LPAREN")
      THEN call_loop(finish_call(advance(r.self), r.node))
    ELSE IF check(r.self, "DOT")
      THEN Then(consume(advance(r.self), "IDENTIFIER",
                        "Expected property name after '.'"), LAMBDA c :
           call_loop(Ok(c.self,
               MemberExpression(r.node, Identifier(previous(c.self).value), FALSE))))
    ELSE IF check(r.self, "LBRACKET")
      THEN Then(expression(advance(r.self)), LAMBDA index :
           Then(consume(index.self, "RBRACKET", "Expected ']' after array index"),
                LAMBDA c :
           call_loop(Ok(c.self, IndexExpression(r.node, index.node)))))
    ELSE r

call(self) == call_loop(primary(self))

unary(self) ==
    With(match(self, {"NOT", "NOT_KORA", "MINUS"}), LAMBDA m :
    IF m.ok
    THEN Then(unary(m.self), LAMBDA right :
         Ok(right.self, UnaryExpression(previous(m.self).value, right.node)))
    ELSE call(self))

(***************************************************************************)
(* The binary levels or_expression, and_expression, equality, comparison,  *)
(* term and factor have one shape: parse an operand of the next-higher     *)
(* level, then, while a token of the level's operators matches, parse      *)
(* another such operand and build a BinaryExpression to the left.          *)
(***************************************************************************)
NextLevel(level) ==
    CASE level = "or_expression" -> "and_expression"
      [] level = "and_expression" -> "equality"
      [] level = "equality" -> "comparison"
      [] level = "comparison" -> "term"
      [] level = "term" -> "factor"
      [] level = "factor" -> "unary"

\* Additive and multiplicative operators matched at one level.
LevelTypes_flat(level) ==
    CASE level = "or_expression" -> {"OR", "BA"}
      [] level = "and_expression" -> {"AND", "ARU"}
      [] level = "equality" -> {"NOT_EQUAL", "EQUAL"}
      [] level = "comparison" -> {"GREATER", "GREATER_EQUAL", "LESS", "LESS_EQUAL"}
      [] level = "term" -> {"MINUS", "PLUS", "DIVIDE", "MULTIPLY", "MODULO"}
      [] level = "factor" -> {"MINUS", "PLUS", "DIVIDE", "MULTIPLY", "MODULO"}

\* The token types self.match(...) is given at each level.
LevelTypes(level) ==
    CASE level = "or_expression" -> {"OR", "BA"}
      [] level = "and_expression" -> {"AND", "ARU"}
      [] level = "equality" -> {"NOT_EQUAL", "EQUAL"}
      [] level = "comparison" -> {"GREATER", "GREATER_EQUAL", "LESS", "LESS_EQUAL"}
      [] level = "term" -> {"MINUS", "PLUS"}
      [] level = "factor" -> {"DIVIDE", "MULTIPLY", "MODULO"}

\* while self.match(*types): operator = previous(); right = <next level>();
\*     expr = BinaryExpression(expr, operator.value, right)
binary_loop(r, level) ==
    Then(r, LAMBDA expr :
    With(match(expr.self, LevelTypes(level)), LAMBDA m :
    IF ~m.ok THEN expr
    ELSE Then(binary(m.self, NextLevel(level)), LAMBDA right :
         binary_loop(Ok(right.self,
                        BinaryExpression(expr.node, previous(m.self).value, right.node)),
                     level))))

\* The method of a level: expr = <next level>(), then the loop.
binary(self, level) ==
    IF level = "unary" THEN unary(self)
    ELSE binary_loop(binary(self, NextLevel(level)), level)

or_expression(self) == binary(self, "or_expression")

assignment(self) ==
    Then(or_expression(self), LAMBDA expr :
    With(match(expr.self, {"ASSIGN"}), LAMBDA m :
    IF ~m.ok THEN expr
    ELSE Then(assignment(m.self), LAMBDA value :
         IF expr.node.node \in {"Identifier", "MemberExpression"}
         THEN Ok(value.self,
                 AssignmentExpression(expr.node, previous(m.self).value, value.node))
         \* self.error(...) is called but its result is not raised
         ELSE Ok(error(value.self, previous(m.self),
                       "Invalid assignment target").self,
                 expr.node))))

expression(self) == assignment(self)

expression_statement(self) ==
    Then(expression(self), LAMBDA expr :
    With(match(expr.self, {"SEMICOLON"}), LAMBDA m :
    IF m.ok THEN Ok(m.self, expr.node)
    ELSE IF check(expr.self, "EOF") \/ check(expr.self, "NEWLINE")
    THEN Ok(IF ~check(expr.self, "EOF") THEN advance(expr.self) ELSE expr.self,
            expr.node)
    ELSE Raise(expr.self, peek(expr.self),
               "Expected ';' or newline after expression")))

variable_declaration(self) ==
    Then(consume(self, "IDENTIFIER", "Expected variable name"), LAMBDA c1 :
    With(match(c1.self, {"COLON"}), LAMBDA m1 :
    Then(IF m1.ok THEN consume(m1.self, "IDENTIFIER", "Expected variable type")
         ELSE Ok(m1.self, NoNode), LAMBDA c2 :
    With(match(c2.self, {"ASSIGN"}), LAMBDA m2 :
    Then(IF m2.ok THEN expression(m2.self) ELSE Ok(m2.self, NoNode), LAMBDA init :
    With(match(init.self, {"SEMICOLON"}), LAMBDA m3 :
    IF m3.ok \/ check(m3.self, "EOF") \/ check(m3.self, "NEWLINE")
    THEN Ok(IF ~check(m3.self, "EOF") THEN advance(m3.self) ELSE m3.self,
            VariableDeclaration(previous(c1.self).value,
                                IF m1.ok THEN previous(c2.self).value ELSE NoText,
                                init.node))
    ELSE Raise(m3.self, peek(m3.self),
               "Expected ';' or newline after variable declaration")))))))

return_statement(self) ==
    Then(IF ~check(self, "SEMICOLON") THEN expression(self)
         ELSE Ok(self, NoNode), LAMBDA value :
    Then(consume(value.self, "SEMICOLON", "Expected ';' after return value"), LAMBDA c :
    Ok(c.self, ReturnStatement(value.node))))

\* The loop of block_statement: the statements collected so far.
block_loop(self, stmts) ==
    IF ~check(self, "RBRACE") /\ ~is_at_end(self)
    THEN With(skip_newlines(self), LAMBDA s1 :
         IF check(s1, "RBRACE") \/ is_at_end(s1)
         THEN Ok(s1, stmts)
         ELSE With(declaration(s1), LAMBDA d :
              block_loop(d.self, IF d.node.node # "None" THEN Append(stmts, d.node)
                                 ELSE stmts)))
    ELSE Ok(self, stmts)

block_statement(self) ==
    Then(block_loop(self, <<>>), LAMBDA b :
    Then(consume(b.self, "RBRACE", "Expected '}' after block"), LAMBDA c :
    Ok(c.self, BlockStatement(b.node))))

if_statement(self) ==
    Then(consume(self, "LPAREN", "Expected '(' after 'if'"), LAMBDA c1 :
    Then(expression(c1.self), LAMBDA condition :
    Then(consume(condition.self, "RPAREN", "Expected ')' after if condition"),
         LAMBDA c2 :
    Then(statement(c2.self), LAMBDA then_branch :
    With(match(then_branch.self, {"ELSE", "NOHOLE"}), LAMBDA m :
    Then(IF m.ok THEN statement(m.self) ELSE Ok(m.self, NoNode), LAMBDA else_branch :
    Ok(else_branch.self,
       IfStatement(condition.node, then_branch.node, else_branch.node))))))))

while_statement(self) ==
    Then(consume(self, "LPAREN", "Expected '(' after 'while'"), LAMBDA c1 :
    Then(expression(c1.self), LAMBDA condition :
    Then(consume(condition.self, "RPAREN", "Expected ')' after while condition"),
         LAMBDA c2 :
    Then(statement(c2.self), LAMBDA body :
    Ok(body.self, WhileStatement(condition.node, body.node))))))

for_statement(self) ==
    Then(consume(self, "LPAREN", "Expected '(' after 'for'"), LAMBDA c1 :
    With(match(c1.self, {"SEMICOLON"}), LAMBDA m1 :
    With(match(m1.self, {"LET", "DHORA"}), LAMBDA m2 :
    Then(IF m1.ok THEN Ok(m1.self, NoNode)
         ELSE IF m2.ok THEN variable_declaration(m2.self)
         ELSE expression_statement(m2.self), LAMBDA initializer :
    Then(IF ~check(initializer.self, "SEMICOLON") THEN expression(initializer.self)
         ELSE Ok(initializer.self, NoNode), LAMBDA condition :
    Then(consume(condition.self, "SEMICOLON", "Expected ';' after for loop condition"),
         LAMBDA c2 :
    Then(IF ~check(c2.self, "RPAREN") THEN expression(c2.self)
         ELSE Ok(c2.self, NoNode), LAMBDA increment :
    Then(consume(increment.self, "RPAREN", "Expected ')' after for clauses"),
         LAMBDA c3 :
    Then(statement(c3.self), LAMBDA body :
    Ok(body.self,
       ForStatement(initializer.node, condition.node, increment.node,
                    body.node)))))))))))

statement(self) ==
    IF check(self, "IF") \/ check(self, "JODI") THEN if_statement(advance(self))
    ELSE IF check(self, "WHILE") \/ check(self, "JETIALOIKE")
      THEN while_statement(advance(self))
    ELSE IF check(self, "FOR") \/ check(self, "KARONE")
      THEN for_statement(advance(self))
    ELSE IF check(self, "RETURN") \/ check(self, "GHAURAI_DIYA")
      THEN return_statement(advance(self))
    ELSE IF check(self, "LBRACE") THEN block_statement(advance(self))
    ELSE expression_statement(self)

\* The loop of parameters(): the parameters collected so far.
parameters_loop(self, params) ==
    Then(consume(self, "IDENTIFIER", "Expected parameter name"), LAMBDA c1 :
    With(match(c1.self, {"COLON"}), LAMBDA m1 :
    Then(IF m1.ok THEN consume(m1.self, "IDENTIFIER", "Expected parameter type")
         ELSE Ok(m1.self, NoNode), LAMBDA c2 :
    With(Append(params,
                Parameter(previous(c1.self).value,
                          IF m1.ok THEN previous(c2.self).value ELSE NoText)),
         LAMBDA ps :
    With(match(c2.self, {"COMMA"}), LAMBDA m2 :
    IF m2.ok THEN parameters_loop(m2.self, ps) ELSE Ok(m2.self, ps))))))

parameters(self) ==
    IF ~check(self, "RPAREN") THEN parameters_loop(self, <<>>) ELSE Ok(self, <<>>)

function_declaration(self) ==
    Then(consume(self, "IDENTIFIER", "Expected function name"), LAMBDA c1 :
    Then(consume(c1.self, "LPAREN", "Expected '(' after function name"), LAMBDA c2 :
    Then(parameters(c2.self), LAMBDA params :
    Then(consume(params.self, "RPAREN", "Expected ')' after parameters"), LAMBDA c3 :
    With(match(c3.self, {"ARROW"}), LAMBDA m :
    Then(IF m.ok THEN consume(m.self, "IDENTIFIER", "Expected return type")
         ELSE Ok(m.self, NoNode), LAMBDA c4 :
    Then(consume(c4.self, "LBRACE", "Expected '{' before function body"), LAMBDA c5 :
    Then(block_statement(skip_newlines(c5.self)), LAMBDA body :
    Ok(body.self,
       FunctionDeclaration(previous(c1.self).value, params.node,
                           IF m.ok THEN previous(c4.self).value ELSE NoText,
                           body.node))))))))))

\* declaration(): never raises; on an exception it records the wrapped
\* message, synchronizes and returns None.
declaration(self) ==
    With(IF check(self, "FN") \/ check(self, "KAM")
           THEN function_declaration(advance(self))
         ELSE IF check(self, "LET") \/ check(self, "DHORA")
           THEN variable_declaration(advance(self))
         ELSE statement(self), LAMBDA r :
    IF r.raised
    THEN Ok(synchronize([r.self EXCEPT !.errors =
                           Append(@, [wrapped |-> TRUE, error |-> r.exc])]),
            NoNode)
    ELSE r)

(***************************************************************************)
(* Source programs.  A program is a sequence of statement forms; its text  *)
(* is the forms' lexemes separated by single spaces, each form followed by *)
(* its terminator (";", a line break, or nothing).                         *)
(***************************************************************************)
RECURSIVE IntText(_)
IntText(n) ==
    IF n < 10 THEN <<Digits[n + 1]>>
    ELSE IntText(n \div 10) \o <<Digits[(n % 10) + 1]>>

K_let == <<"l", "e", "t">>

Form(kind, name, value, lexemes, terminator) ==
    [kind |-> kind, name |-> name, value |-> value, lexemes |-> lexemes,
     term |-> terminator]

\* let <name> = <value><term>
Decl(name, value, terminator) ==
    Form("decl", name, value, <<K_let, <<name>>, <<"=">>, IntText(value)>>,
         terminator)

\* <name><term>
NameStmt(name, terminator) == Form("name", name, 0, <<<<name>>>>, terminator)

\* let <name> = ;          (no initializer expression)
DeclNoInit(name) ==
    Form("noinit", name, 0, <<K_let, <<name>>, <<"=">>, <<";">>>>, <<";">>)

\* let <name> = 1 = <value>;   (assignment to a literal as initializer)
DeclBadTarget(name, value) ==
    Form("badinit", name, value,
         <<K_let, <<name>>, <<"=">>, <<"1">>, <<"=">>, IntText(value)>>, <<";">>)

\* 1 = <value>;
LiteralTarget(value) ==
    Form("badtarget", "", value, <<<<"1">>, <<"=">>, IntText(value)>>, <<";">>)

\* <name>[0] = <value>;
IndexTarget(name, value) ==
    Form("badindex", name, value,
         <<<<name>>, <<"[">>, <<"0">>, <<"]">>, <<"=">>, IntText(value)>>, <<";">>)

\* a <op1> b <op2> c;
Chain(op1, op2) ==
    Form("chain", "", 0, <<<<"a">>, op1, <<"b">>, op2, <<"c">>>>, <<";">>)

\* a <op1> b <op2> c <op3> d;
Chain3(op1, op2, op3) ==
    Form("chain3", "", 0,
         <<<<"a">>, op1, <<"b">>, op2, <<"c">>, op3, <<"d">>>>, <<";">>)

\* <n1> + <n2> * <n3>;
Sum(n1, n2, n3) ==
    Form("sum", "", 0, <<IntText(n1), <<"+">>, IntText(n2), <<"*">>, IntText(n3)>>,
         <<";">>)

\* a = b = <value>;
Assign2(value) ==
    Form("assign2", "", value, <<<<"a">>, <<"=">>, <<"b">>, <<"=">>, IntText(value)>>,
         <<";">>)

RECURSIVE Join(_)
Join(lexemes) ==
    IF lexemes = <<>> THEN <<>>
    ELSE IF Len(lexemes) = 1 THEN lexemes[1]
    ELSE lexemes[1] \o <<" ">> \o Join(Tail(lexemes))

\* The terminator follows the last lexeme directly, unless the form's
\* lexemes already end with it.
FormText(form) ==
    IF form.kind = "noinit" THEN Join(form.lexemes)
    ELSE Join(form.lexemes) \o form.term

RECURSIVE Render(_)
Render(forms) ==
    IF forms = <<>> THEN <<>>
    ELSE IF Len(forms) = 1 THEN FormText(forms[1])
    ELSE FormText(forms[1]) \o <<" ">> \o Render(Tail(forms))

Terminators == {<<";">>, <<"\n">>, <<>>}

WellFormedDecls == {Decl(n, v, <<";">>) : n \in {"x", "z"}, v \in {42, 10}}

StmtForms ==
    WellFormedDecls
    \cup {Decl("x", 42, <<"\n">>), Decl("x", 42, <<>>)}
    \cup {NameStmt("x", t) : t \in Terminators}
    \cup {DeclNoInit("y"), DeclBadTarget("y", 2), LiteralTarget(2), IndexTarget("a", 1)}

\* A statement terminated by end-of-input is the last one of its program.
StmtPrograms ==
    UNION {{p \in [1..n -> StmtForms] : \A i \in 1..(n - 1) : p[i].term # <<>>}
           : n \in 1..MaxStmts}

BinaryOps ==
    {<<"|", "|">>, <<"&", "&">>, <<"=", "=">>, <<"!", "=">>, <<"<">>, <<"<", "=">>,
     <<">">>, <<">", "=">>, <<"+">>, <<"-">>, <<"*">>, <<"/">>, <<"%">>}

ChainPrograms ==
    {<<Chain(op1, op2)>> : op1 \in BinaryOps, op2 \in BinaryOps}
    \cup {<<Chain3(op1, op2, op3)>> : op1 \in {<<"-">>, <<"/">>, <<"<">>},
                                     op2 \in {<<"-">>, <<"*">>, <<"=", "=">>},
                                     op3 \in {<<"+">>, <<"%">>, <<"&", "&">>}}
    \cup {<<Sum(1, 2, 3)>>, <<Sum(2, 10, 42)>>, <<Assign2(1)>>, <<Assign2(42)>>}

Text(lexeme) == [i \in 1..Len(lexeme) |-> lexeme[i]]

K_true == <<"t", "r", "u", "e">>
K_hosa == <<"h", "o", "s", "a">>
K_false == <<"f", "a", "l", "s", "e">>
K_misa == <<"m", "i", "s", "a">>
K_aru == <<"a", "r", "u">>
K_ba == <<"b", "a">>
K_not_kora == <<"n", "o", "t", "_", "k", "o", "r", "a">>
K_dhora == <<"d", "h", "o", "r", "a">>

K_fn == <<"f", "n">>
K_kam == <<"k", "a", "m">>
K_if == <<"i", "f">>
K_jodi == <<"j", "o", "d", "i">>
K_else == <<"e", "l", "s", "e">>
K_nohole == <<"n", "o", "h", "o", "l", "e">>
K_return == <<"r", "e", "t", "u", "r", "n">>
K_ghurai_diya == <<"g", "h", "u", "r", "a", "i", "_", "d", "i", "y", "a">>

\* The two spellings of each keyword that has two, English one first.
KeywordSpellings ==
    {<<K_let, K_dhora>>, <<K_true, K_hosa>>, <<K_false, K_misa>>,
     <<K_fn, K_kam>>, <<K_if, K_jodi>>, <<K_else, K_nohole>>,
     <<K_return, K_ghurai_diya>>}

\* The two spellings of each construct that has two, canonical one first.
Spellings ==
    KeywordSpellings
    \cup {<<<<"&", "&">>, K_aru>>, <<<<"|", "|">>, K_ba>>, <<<<"!">>, K_not_kora>>}

\* The canonical spelling of a lexeme.
Canonical(lexeme) ==
    IF \E s \in Spellings : s[2] = lexeme
    THEN (CHOOSE s \in Spellings : s[2] = lexeme)[1]
    ELSE lexeme

BoolSpellings == {K_true, K_hosa, K_false, K_misa}

\* <let> r = <left> <op> <right>;
Logic(let, left, op, right) ==
    Form("logic", "r", 0, <<let, <<"r">>, <<"=">>, left, op, right>>, <<";">>)

\* <let> r = <not> <operand>;
Negation(let, not, operand) ==
    Form("not", "r", 0, <<let, <<"r">>, <<"=">>, not, operand>>, <<";">>)

\* <fn> f ( ) { <return> true ; }
FnForm(fn, return) ==
    Form("fn", "f", 0,
         <<fn, <<"f">>, <<"(">>, <<")">>, <<"{">>, return, K_true, <<";">>, <<"}">>>>,
         <<>>)

\* <if> ( true ) { } <else> { }
IfForm(if, else) ==
    Form("if", "", 0,
         <<if, <<"(">>, K_true, <<")">>, <<"{">>, <<"}">>, else, <<"{">>, <<"}">>>>,
         <<>>)

KeywordPrograms ==
    {<<FnForm(fn, return)>> : fn \in {K_fn, K_kam}, return \in {K_return, K_ghurai_diya}}
    \cup {<<IfForm(if, else)>> : if \in {K_if, K_jodi}, else \in {K_else, K_nohole}}

K_print == <<"p", "r", "i", "n", "t">>
K_likha == <<"l", "i", "k", "h", "a">>

\* let <name> = <n1> + <n2>;
DeclSum(name, n1, n2) ==
    Form("declsum", name, n1 + n2,
         <<K_let, <<name>>, <<"=">>, IntText(n1), <<"+">>, IntText(n2)>>, <<";">>)

\* <callee>(<argument>);
CallStmt(callee, argument) ==
    Form("call", "", 0, <<callee, <<"(">>, argument, <<")">>>>, <<";">>)

CallPrograms ==
    {<<DeclSum("x", 5, 3), CallStmt(callee, <<"x">>)>> : callee \in {K_print, K_likha}}
    \cup {<<CallStmt(callee, IntText(n))>> : callee \in {K_print, K_likha}, n \in {1, 42}}

K_for == <<"f", "o", "r">>
K_karone == <<"k", "a", "r", "o", "n", "e">>

\* <for> ( <init> i = 0 ; i < 3 ; i = i + 1 ) { }   with <init> empty or a
\* spelling of `let`
ForForm(for, init) ==
    Form("for", "i", 0,
         <<for, <<"(">>>> \o init
         \o <<<<"i">>, <<"=">>, <<"0">>, <<";">>, <<"i">>, <<"<">>, <<"3">>, <<";">>,
              <<"i">>, <<"=">>, <<"i">>, <<"+">>, <<"1">>, <<")">>, <<"{">>, <<"}">>>>,
         <<>>)

ForPrograms ==
    {<<ForForm(for, init)>> : for \in {K_for, K_karone},
                              init \in {<<>>, <<K_let>>, <<K_dhora>>}}

K_while == <<"w", "h", "i", "l", "e">>
K_jetialoike == <<"j", "e", "t", "i", "a", "l", "o", "i", "k", "e">>

\* <if> x > 0 { likha ( x ) ; } else { likha ( 0 ) ; }
BareIf(if) ==
    Form("bareif", "x", 0,
         <<if, <<"x">>, <<">">>, <<"0">>, <<"{">>, K_likha, <<"(">>, <<"x">>, <<")">>,
           <<";">>, <<"}">>, K_else, <<"{">>, K_likha, <<"(">>, <<"0">>, <<")">>,
           <<";">>, <<"}">>>>, <<>>)

\* <while> i > 0 { i = i - 1 ; }
BareWhile(while) ==
    Form("barewhile", "i", 0,
         <<while, <<"i">>, <<">">>, <<"0">>, <<"{">>, <<"i">>, <<"=">>, <<"i">>, <<"-">>,
           <<"1">>, <<";">>, <<"}">>>>, <<>>)

\* { let y = ; x ; }
BlockForm ==
    Form("block", "y", 0,
         <<<<"{">>, K_let, <<"y">>, <<"=">>, <<";">>, <<"x">>, <<";">>, <<"}">>>>, <<>>)

BarePrograms ==
    {<<BareIf(if)>> : if \in {K_if, K_jodi}}
    \cup {<<BareWhile(while)>> : while \in {K_while, K_jetialoike}}
    \cup {<<BlockForm>>}

LogicPrograms ==
    {<<Logic(let, left, op, right)>>
     : let \in {K_let, K_dhora}, left \in BoolSpellings,
       op \in {<<"&", "&">>, K_aru, <<"|", "|">>, K_ba}, right \in {K_true, K_misa}}
    \cup {<<Negation(let, not, operand)>>
          : let \in {K_let, K_dhora}, not \in {<<"!">>, K_not_kora},
            operand \in BoolSpellings}

Programs ==
    StmtPrograms \cup ChainPrograms \cup LogicPrograms \cup KeywordPrograms
    \cup CallPrograms \cup ForPrograms \cup BarePrograms

(***************************************************************************)
(* The evaluator's part of the state is left alone by the front end.       *)
(***************************************************************************)
NoProgram == <<>>

(***************************************************************************)
(* Front end: Lexer(source).tokenize(), Parser(tokens), then parse()       *)
(* one iteration of its loop at a time.                                    *)
(***************************************************************************)
Tokenize ==
    /\ pc = "source"
    /\ LET r == tokenize(lexer)
       IN  /\ lexer' = r.self
           /\ pc' = IF r.raised THEN "lexical_failure" ELSE "tokens"
    /\ UNCHANGED <<input, source, parser, statements>>
    /\ UNCHANGED evalVars

NewParser ==
    /\ pc = "tokens"
    /\ parser' = Parser(lexer.tokens)
    /\ statements' = <<>>
    /\ pc' = "parsing"
    /\ UNCHANGED <<input, source, lexer>>
    /\ UNCHANGED evalVars

\* One iteration of the loop of parse(): declaration() cannot raise, so the
\* except branch of parse() is never taken.
ParseDeclaration ==
    /\ pc = "parsing"
    /\ ~is_at_end(parser)
    /\ With(declaration(parser), LAMBDA d :
            /\ parser' = d.self
            /\ statements' = IF d.node.node # "None" THEN Append(statements, d.node)
                             ELSE statements)
    /\ UNCHANGED <<input, source, pc, lexer>>
    /\ UNCHANGED evalVars

ParseReturn ==
    /\ pc = "parsing"
    /\ is_at_end(parser)
    /\ pc' = "parsed"
    /\ UNCHANGED <<input, source, lexer, parser, statements>>
    /\ UNCHANGED evalVars

\* The parser recorded errors: they are shown and the run ends.
ExitParseErrors ==
    /\ pc = "parsed"
    /\ parser.errors # <<>>
    /\ pc' = "exit"
    /\ UNCHANGED <<input, source, lexer, parser, statements>>
    /\ UNCHANGED evalVars

(***************************************************************************)
(* Evaluator (src/hixa/interpreter.py).                                    *)
(*                                                                         *)
(* Python objects with identity live in two heaps of the interpreter       *)
(* record: frames (Environment objects) and objects (HixaFunction          *)
(* objects); a value refers to them by index.  The fields trace, calls,    *)
(* ncalls and nest, and the fields captured and paired of a function       *)
(* object, are history variables: they record what the evaluator did and   *)
(* are never read by it.  captured is the environment that was current     *)
(* when the declaration was evaluated; paired is the environment the       *)
(* function value was last paired with (at its declaration, or by setattr).*)
(***************************************************************************)
EnvRef(i) == [t |-> "Environment", v |-> i]

FunRef(i) == [t |-> "HixaFunction", v |-> i]

DeclValue(node) == [t |-> "FunctionDeclaration", v |-> node]

Builtin(method) == [t |-> "builtin", v |-> method]

\* A Python list or dict lives in the heap `heap`; a value refers to it by
\* index, so two bindings of the same list are the same object.
ListRef(i) == [t |-> "list", v |-> i]

DictRef(i) == [t |-> "dict", v |-> i]

\* Python truth value of a host value (used by `if self.enclosing:`).
PyTruthy(value) ==
    CASE value.t = "NoneType" -> FALSE
      [] value.t = "bool" -> value.v
      [] value.t = "int" -> value.v # 0
      [] value.t = "float" -> value.v[1] # 0
      [] value.t = "str" -> value.v # <<>>
      [] OTHER -> TRUE

\* Environment(enclosing)
Environment(enclosing) == [values |-> <<>>, enclosing |-> enclosing]

\* Environment.define on the frame with index env
define(frames, env, name, value) ==
    [frames EXCEPT ![env].values = (name :> value) @@ @]

Undefined(name) == [message |-> "Undefined variable", detail |-> name]

Message(text) == [message |-> text, detail |-> <<>>]

\* Environment.get
RECURSIVE get(_, _, _)
\* A lookup that prefers the binding of an enclosing frame.
get_outermost(frames, env, name) ==
    LET outer == IF frames[env].enclosing.t = "Environment"
                 THEN get(frames, frames[env].enclosing.v, name)
                 ELSE [raised |-> "RuntimeError", value |-> None,
                       exc |-> Undefined(name)]
    IN  IF outer.raised = "" \/ name \notin DOMAIN frames[env].values THEN outer
        ELSE [raised |-> "", value |-> frames[env].values[name], exc |-> None]

get(frames, env, name) ==
    IF name \in DOMAIN frames[env].values
    THEN [raised |-> "", value |-> frames[env].values[name], exc |-> None]
    ELSE IF PyTruthy(frames[env].enclosing)
    THEN IF frames[env].enclosing.t = "Environment"
         THEN get(frames, frames[env].enclosing.v, name)
         ELSE [raised |-> "AttributeError", value |-> None, exc |-> Message("get")]
    ELSE [raised |-> "RuntimeError", value |-> None, exc |-> Undefined(name)]

\* Environment.assign
RECURSIVE assign(_, _, _, _)
\* An assignment that binds the name in the current frame when that frame
\* does not bind it yet.
assign_local(frames, env, name, value) ==
    [raised |-> "", frames |-> define(frames, env, name, value), exc |-> None]

assign(frames, env, name, value) ==
    IF name \in DOMAIN frames[env].values
    THEN [raised |-> "", frames |-> [frames EXCEPT ![env].values[name] = value],
          exc |-> None]
    ELSE IF PyTruthy(frames[env].enclosing)
    THEN IF frames[env].enclosing.t = "Environment"
         THEN assign(frames, frames[env].enclosing.v, name, value)
         ELSE [raised |-> "AttributeError", frames |-> frames, exc |-> Message("assign")]
    ELSE [raised |-> "RuntimeError", frames |-> frames, exc |-> Undefined(name)]

stdlib ==
       (<<"p", "r", "i", "n", "t">> :> Builtin("_print"))
    @@ (<<"l", "e", "n">> :> Builtin("_len"))
    @@ (<<"r", "a", "n", "g", "e">> :> Builtin("_range"))
    @@ (<<"i", "n", "p", "u", "t">> :> Builtin("_input"))
    @@ (<<"i", "n", "t">> :> Builtin("_int"))
    @@ (<<"f", "l", "o", "a", "t">> :> Builtin("_float"))
    @@ (<<"s", "t", "r", "i", "n", "g">> :> Builtin("_string"))
    @@ (<<"b", "o", "o", "l">> :> Builtin("_bool"))
    @@ (<<"p", "r", "i", "n", "t", "_", "k", "o", "r", "a">> :> Builtin("_print"))
    @@ (<<"l", "i", "k", "h", "a">> :> Builtin("_print"))
    @@ (<<"l", "e", "n", "g", "t", "h", "_", "k", "o", "r", "a">> :> Builtin("_len"))
    @@ (<<"i", "n", "p", "u", "t", "_", "l", "o", "u">> :> Builtin("_input"))
    @@ (<<"r", "a", "n", "d", "o", "m", "_", "k", "o", "r", "a">> :> Builtin("_random"))
    @@ (<<"t", "i", "m", "e", "_", "k", "o", "r", "a">> :> Builtin("_time"))
    @@ (<<"s", "l", "e", "e", "p", "_", "k", "o", "r", "a">> :> Builtin("_sleep"))
    @@ (<<"c", "l", "e", "a", "r", "_", "k", "o", "r", "a">> :> Builtin("_clear"))
    @@ (<<"a", "d", "d", "_", "k", "o", "r", "a">> :> Builtin("_append"))
    @@ (<<"r", "e", "m", "o", "v", "e", "_", "k", "o", "r", "a">> :> Builtin("_remove"))
    @@ (<<"s", "o", "r", "t", "_", "k", "o", "r", "a">> :> Builtin("_sort"))
    @@ (<<"r", "e", "v", "e", "r", "s", "e", "_", "k", "o", "r", "a">> :> Builtin("_reverse"))
    @@ (<<"b", "i", "s", "o", "r", "a">> :> Builtin("_find"))
    @@ (<<"r", "e", "p", "l", "a", "c", "e", "_", "k", "o", "r", "a">> :> Builtin("_replace"))
    @@ (<<"s", "p", "l", "i", "t", "_", "k", "o", "r", "a">> :> Builtin("_split"))
    @@ (<<"j", "o", "i", "n", "_", "k", "o", "r", "a">> :> Builtin("_join"))
    @@ (<<"u", "p", "p", "e", "r", "_", "k", "o", "r", "a">> :> Builtin("_upper"))
    @@ (<<"l", "o", "w", "e", "r", "_", "k", "o", "r", "a">> :> Builtin("_lower"))
    @@ (<<"r", "o", "u", "n", "d", "_", "k", "o", "r", "a">> :> Builtin("_round"))
    @@ (<<"f", "l", "o", "o", "r", "_", "k", "o", "r", "a">> :> Builtin("_floor"))
    @@ (<<"c", "e", "i", "l", "_", "k", "o", "r", "a">> :> Builtin("_ceil"))
    @@ (<<"a", "b", "s", "_", "k", "o", "r", "a">> :> Builtin("_abs"))
    @@ (<<"s", "q", "r", "t", "_", "k", "o", "r", "a">> :> Builtin("_sqrt"))
    @@ (<<"p", "o", "w", "_", "k", "o", "r", "a">> :> Builtin("_pow"))
    @@ (<<"s", "i", "n", "_", "k", "o", "r", "a">> :> Builtin("_sin"))
    @@ (<<"c", "o", "s", "_", "k", "o", "r", "a">> :> Builtin("_cos"))
    @@ (<<"t", "a", "n", "_", "k", "o", "r", "a">> :> Builtin("_tan"))
    @@ (<<"l", "o", "g", "_", "k", "o", "r", "a">> :> Builtin("_log"))
    @@ (<<"e", "x", "p", "_", "k", "o", "r", "a">> :> Builtin("_exp"))
    @@ (<<"m", "i", "n", "_", "k", "o", "r", "a">> :> Builtin("_min"))
    @@ (<<"m", "a", "x", "_", "k", "o", "r", "a">> :> Builtin("_max"))
    @@ (<<"s", "u", "m", "_", "k", "o", "r", "a">> :> Builtin("_sum"))
    @@ (<<"a", "v", "e", "r", "a", "g", "e", "_", "k", "o", "r", "a">> :> Builtin("_average"))
    @@ (<<"c", "o", "u", "n", "t", "_", "k", "o", "r", "a">> :> Builtin("_count"))
    @@ (<<"c", "o", "p", "y", "_", "k", "o", "r", "a">> :> Builtin("_copy"))
    @@ (<<"d", "e", "l", "e", "t", "e", "_", "k", "o", "r", "a">> :> Builtin("_delete"))
    @@ (<<"c", "h", "e", "c", "k", "_", "k", "o", "r", "a">> :> Builtin("_check"))
    @@ (<<"c", "o", "n", "v", "e", "r", "t", "_", "k", "o", "r", "a">> :> Builtin("_convert"))
    @@ (<<"f", "o", "r", "m", "a", "t", "_", "k", "o", "r", "a">> :> Builtin("_format"))
    @@ (<<"v", "a", "l", "i", "d", "a", "t", "e", "_", "k", "o", "r", "a">> :> Builtin("_validate"))
    @@ (<<"e", "r", "r", "o", "r", "_", "k", "o", "r", "a">> :> Builtin("_error"))

\* Interpreter(): globals seeded with the standard library.
Interpreter ==
    [globals |-> 1,
     environment |-> 1,
     frames |-> <<[values |-> stdlib, enclosing |-> None]>>,
     objects |-> <<>>,
     heap |-> <<>>,
     output |-> <<>>,
     trace |-> <<>>, calls |-> <<>>, ncalls |-> 0, nest |-> 0, scopes |-> <<>>]

\* The innermost active user-function call (0 at top level).
CurCall(self) == IF self.calls = <<>> THEN 0 ELSE self.calls[Len(self.calls)]

Emit(self, event) ==
    [self EXCEPT !.trace = Append(@, event @@ [call |-> CurCall(self),
                                                 nest |-> self.nest,
                                                 nobjects |-> Len(self.objects)])]

\* The result of evaluating a node: the interpreter after it, the value, and
\* the exception raised ("" when none) with its payload.
Val(self, value) == [self |-> self, value |-> value, raised |-> "", exc |-> None]

Exc(self, type_, payload) ==
    [self |-> self, value |-> None, raised |-> type_, exc |-> payload]

RuntimeError(self, text) == Exc(self, "RuntimeError", Message(text))

\* Interpreter._is_truthy
_is_truthy(value) ==
    IF value.t = "NoneType" THEN FALSE
    ELSE IF value.t = "bool" THEN value.v
    ELSE TRUE

\* isinstance(value, (int, float)); bool is a subclass of int.
IsNumber(value) == value.t \in {"int", "bool", "float"}

\* isinstance(value, int)
IsInt(value) == value.t \in {"int", "bool"}

\* A number as the rational <<numerator, denominator>>, denominator > 0.
Rat(value) ==
    CASE value.t = "int" -> <<value.v, 1>>
      [] value.t = "bool" -> <<IF value.v THEN 1 ELSE 0, 1>>
      [] value.t = "float" -> value.v

\* The Python number for a rational: int when both operands were ints.
Num(r, asInt) == IF asInt THEN PyInt(r[1]) ELSE [t |-> "float", v |-> r]

PyMod(a, b) == IF b > 0 THEN a % b ELSE 0 - ((0 - a) % (0 - b))

\* Python ==: numbers compare by value, everything else structurally.
PyEq(left, right) ==
    IF IsNumber(left) /\ IsNumber(right)
    THEN Rat(left)[1] * Rat(right)[2] = Rat(right)[1] * Rat(left)[2]
    ELSE left = right

PyLess(left, right) == Rat(left)[1] * Rat(right)[2] < Rat(right)[1] * Rat(left)[2]

_add(self, left, right) ==
    IF IsNumber(left) /\ IsNumber(right)
    THEN Val(self, Num(<<Rat(left)[1] * Rat(right)[2] + Rat(right)[1] * Rat(left)[2],
                         Rat(left)[2] * Rat(right)[2]>>,
                       IsInt(left) /\ IsInt(right)))
    ELSE IF left.t = "str" /\ right.t = "str"
    THEN Val(self, PyStr(left.v \o right.v))
    ELSE RuntimeError(self, "Operands must be two numbers or two strings")

_subtract(self, left, right) ==
    IF IsNumber(left) /\ IsNumber(right)
    THEN Val(self, Num(<<Rat(left)[1] * Rat(right)[2] - Rat(right)[1] * Rat(left)[2],
                         Rat(left)[2] * Rat(right)[2]>>,
                       IsInt(left) /\ IsInt(right)))
    ELSE RuntimeError(self, "Operands must be numbers")

_multiply(self, left, right) ==
    IF IsNumber(left) /\ IsNumber(right)
    THEN Val(self, Num(<<Rat(left)[1] * Rat(right)[1], Rat(left)[2] * Rat(right)[2]>>,
                       IsInt(left) /\ IsInt(right)))
    ELSE RuntimeError(self, "Operands must be numbers")

\* A division whose result for a zero divisor is the number 0.
_divide_sentinel(self, left, right) ==
    IF IsNumber(left) /\ IsNumber(right)
    THEN IF Rat(right)[1] = 0
         THEN Val(self, PyInt(0))
         ELSE LET n == Rat(left)[1] * Rat(right)[2]
                  d == Rat(left)[2] * Rat(right)[1]
              IN  Val(self, Num(IF d < 0 THEN <<0 - n, 0 - d>> ELSE <<n, d>>, FALSE))
    ELSE RuntimeError(self, "Operands must be numbers")

\* left / right is a float; the sign is kept in the numerator.
_divide(self, left, right) ==
    IF IsNumber(left) /\ IsNumber(right)
    THEN IF Rat(right)[1] = 0
         THEN RuntimeError(self, "Division by zero")
         ELSE LET n == Rat(left)[1] * Rat(right)[2]
                  d == Rat(left)[2] * Rat(right)[1]
              IN  Val(self, Num(IF d < 0 THEN <<0 - n, 0 - d>> ELSE <<n, d>>, FALSE))
    ELSE RuntimeError(self, "Operands must be numbers")

_modulo(self, left, right) ==
    IF IsInt(left) /\ IsInt(right)
    THEN IF Rat(right)[1] = 0
         THEN RuntimeError(self, "Modulo by zero")
         ELSE Val(self, PyInt(PyMod(Rat(left)[1], Rat(right)[1])))
    ELSE RuntimeError(self, "Operands must be integers")

_equal(self, left, right) == Val(self, PyBool(PyEq(left, right)))

_not_equal(self, left, right) == Val(self, PyBool(~PyEq(left, right)))

_less(self, left, right) ==
    IF IsNumber(left) /\ IsNumber(right)
    THEN Val(self, PyBool(PyLess(left, right)))
    ELSE RuntimeError(self, "Operands must be numbers")

_less_equal(self, left, right) ==
    IF IsNumber(left) /\ IsNumber(right)
    THEN Val(self, PyBool(~PyLess(right, left)))
    ELSE RuntimeError(self, "Operands must be numbers")

_greater(self, left, right) ==
    IF IsNumber(left) /\ IsNumber(right)
    THEN Val(self, PyBool(PyLess(right, left)))
    ELSE RuntimeError(self, "Operands must be numbers")

_greater_equal(self, left, right) ==
    IF IsNumber(left) /\ IsNumber(right)
    THEN Val(self, PyBool(~PyLess(left, right)))
    ELSE RuntimeError(self, "Operands must be numbers")

_and(self, left, right) == Val(self, PyBool(_is_truthy(left) /\ _is_truthy(right)))

_or(self, left, right) == Val(self, PyBool(_is_truthy(left) \/ _is_truthy(right)))

_negate(self, value) ==
    IF IsNumber(value)
    THEN Val(self, Num(<<0 - Rat(value)[1], Rat(value)[2]>>, IsInt(value)))
    ELSE RuntimeError(self, "Operand must be a number")

_not(self, value) == Val(self, PyBool(~_is_truthy(value)))

_append(self, list_obj, item) ==
    IF list_obj.t = "list"
    THEN Val([self EXCEPT !.heap[list_obj.v].items = Append(@, item)], list_obj)
    ELSE RuntimeError(self, "append() can only be called on lists")

\* A call of a standard-library callable: callee(*arguments).  Only the
\* callables the modelled programs use are given a behaviour.
native(self, method, arguments) ==
    CASE method = "_print" ->
           Val([self EXCEPT !.output = Append(@, arguments)], None)
      [] method = "_bool" /\ Len(arguments) = 1 ->
           Val(self, PyBool(_is_truthy(arguments[1])))
      [] method = "_len" /\ Len(arguments) = 1 ->
           IF arguments[1].t = "str"
           THEN Val(self, PyInt(Len(arguments[1].v)))
           ELSE IF arguments[1].t = "list"
           THEN Val(self, PyInt(Len(self.heap[arguments[1].v].items)))
           ELSE RuntimeError(self, "len() can only be called on strings and arrays")
      [] method = "_append" /\ Len(arguments) = 2 ->
           _append(self, arguments[1], arguments[2])
      [] OTHER -> Exc(self, "Unmodelled", Message(method))

RECURSIVE accept(_, _), execute(_, _), evaluate(_, _), execute_block(_, _, _),
          statements_loop(_, _, _), HixaFunction_call(_, _, _),
          visit_function_declaration(_, _), visit_variable_declaration(_, _),
          visit_binary_expression(_, _), visit_unary_expression(_, _),
          visit_call_expression(_, _), evaluate_arguments(_, _, _),
          visit_block_statement(_, _), visit_if_statement(_, _),
          visit_while_statement(_, _), visit_for_statement(_, _),
          for_loop(_, _), visit_return_statement(_, _),
          visit_assignment_expression(_, _), visit_member_expression(_, _),
          visit_array_expression(_, _), evaluate_properties(_, _, _),
          visit_object_expression(_, _)

\* Interpreter.lookup_variable / visit_identifier
lookup_variable(self, name) ==
    LET r == get(self.frames, self.environment, name)
        s1 == Emit(self, [ev |-> "get", name |-> name, env |-> self.environment,
                          frames |-> self.frames, raised |-> r.raised,
                          value |-> r.value, exc |-> r.exc])
    IN  IF r.raised = "" THEN Val(s1, r.value) ELSE Exc(s1, r.raised, r.exc)

visit_identifier(self, node) == lookup_variable(self, node.name)

\* Interpreter.assign_variable
assign_variable(self, name, value) ==
    LET r == assign(self.frames, self.environment, name, value)
        s1 == Emit([self EXCEPT !.frames = r.frames],
                   [ev |-> "assign", name |-> name, env |-> self.environment,
                    value |-> value, before |-> self.frames, after |-> r.frames,
                    raised |-> r.raised, exc |-> r.exc])
    IN  IF r.raised = "" THEN Val(s1, value) ELSE Exc(s1, r.raised, r.exc)

visit_literal(self, node) == Val(self, node.value)

\* A declaration that pairs the function with a copy of the current frame.
visit_function_declaration_snapshot(self, node) ==
    LET id == Len(self.objects) + 1
        copy == Len(self.frames) + 1
        function == [declaration |-> DeclValue(node),
                     closure |-> EnvRef(copy),
                     captured |-> self.environment,
                     paired |-> EnvRef(self.environment)]
        s1 == [self EXCEPT !.objects = Append(@, function),
                           !.frames = define(Append(@, @[self.environment]),
                                             self.environment, node.name, FunRef(id))]
    IN  Val(Emit(s1, [ev |-> "define", name |-> node.name,
                      env |-> self.environment, value |-> FunRef(id)]), None)

visit_function_declaration(self, node) ==
    LET id == Len(self.objects) + 1
        function == [declaration |-> DeclValue(node),
                     closure |-> EnvRef(self.environment),
                     captured |-> self.environment,
                     paired |-> EnvRef(self.environment)]
        s1 == [self EXCEPT !.objects = Append(@, function),
                           !.frames = define(@, self.environment, node.name, FunRef(id))]
    IN  Val(Emit(s1, [ev |-> "define", name |-> node.name,
                      env |-> self.environment, value |-> FunRef(id)]), None)

visit_variable_declaration(self, node) ==
    LET r == IF node.initializer.node # "None" THEN evaluate(self, node.initializer)
             ELSE Val(self, None)
    IN  IF r.raised # "" THEN r
        ELSE Val(Emit([r.self EXCEPT !.frames =
                          define(@, r.self.environment, node.name, r.value)],
                      [ev |-> "define", name |-> node.name,
                       env |-> r.self.environment, value |-> r.value]), None)

\* A binary expression whose `&&` and `||` skip the right operand when
\* the left one decides the result.
visit_binary_expression_short(self, node) ==
    LET left == evaluate(self, node.left)
    IN  IF left.raised # "" THEN left
        ELSE IF node.operator = <<"&", "&">> /\ ~_is_truthy(left.value)
        THEN Val(left.self, PyBool(FALSE))
        ELSE IF node.operator = <<"|", "|">> /\ _is_truthy(left.value)
        THEN Val(left.self, PyBool(TRUE))
        ELSE LET right == evaluate(left.self, node.right)
             IN  IF right.raised # "" THEN right
                 ELSE CASE node.operator = <<"&", "&">> ->
                             _and(right.self, left.value, right.value)
                        [] node.operator = <<"|", "|">> ->
                             _or(right.self, left.value, right.value)
                        [] node.operator = <<"+">> ->
                             _add(right.self, left.value, right.value)
                        [] OTHER -> Exc(right.self, "Unmodelled", Message("binary"))

visit_binary_expression(self, node) ==
    LET left == evaluate(self, node.left)
    IN  IF left.raised # "" THEN left ELSE
        LET right == evaluate(left.self, node.right)
        IN  IF right.raised # "" THEN right ELSE
            LET s == right.self
                l == left.value
                r == right.value
                op == node.operator
            IN  CASE op = <<"+">> -> _add(s, l, r)
                  [] op = <<"-">> -> _subtract(s, l, r)
                  [] op = <<"*">> -> _multiply(s, l, r)
                  [] op = <<"/">> -> _divide(s, l, r)
                  [] op = <<"%">> -> _modulo(s, l, r)
                  [] op = <<"=", "=">> -> _equal(s, l, r)
                  [] op = <<"!", "=">> -> _not_equal(s, l, r)
                  [] op = <<"<">> -> _less(s, l, r)
                  [] op = <<"<", "=">> -> _less_equal(s, l, r)
                  [] op = <<">">> -> _greater(s, l, r)
                  [] op = <<">", "=">> -> _greater_equal(s, l, r)
                  [] op = <<"&", "&">> -> _and(s, l, r)
                  [] op = <<"|", "|">> -> _or(s, l, r)
                  [] OTHER -> Exc(s, "RuntimeError",
                                  [message |-> "Unknown binary operator", detail |-> op])

visit_unary_expression(self, node) ==
    LET right == evaluate(self, node.operand)
    IN  IF right.raised # "" THEN right
        ELSE CASE node.operator = <<"-">> -> _negate(right.self, right.value)
               [] node.operator = <<"!">> -> _not(right.self, right.value)
               [] OTHER -> Exc(right.self, "RuntimeError",
                               [message |-> "Unknown unary operator",
                                detail |-> node.operator])

\* for argument in node.arguments: arguments.append(self.evaluate(argument))
evaluate_arguments(self, nodes, arguments) ==
    IF nodes = <<>> THEN Val(self, arguments)
    ELSE LET r == evaluate(self, Head(nodes))
         IN  IF r.raised # "" THEN r
             ELSE evaluate_arguments(r.self, Tail(nodes), Append(arguments, r.value))

\* The frame's values after `for param, arg in zip(parameters, arguments)`.
RECURSIVE bind(_, _, _)
bind(values, params, arguments) ==
    IF params = <<>> \/ arguments = <<>> THEN values
    ELSE bind((Head(params).name :> Head(arguments)) @@ values,
              Tail(params), Tail(arguments))

\* A call that does not catch the Return raised in its body.
HixaFunction_call_uncaught(self, id, arguments) ==
    LET function == self.objects[id]
        decl == function.declaration.v
        environment == Len(self.frames) + 1
        frame == [Environment(function.closure) EXCEPT
                    !.values = bind(@, decl.parameters, arguments)]
        cid == self.ncalls + 1
        s1 == Emit([self EXCEPT !.frames = Append(@, frame)],
                   [ev |-> "call", id |-> cid, function |-> id,
                    captured |-> function.captured,
                    paired |-> function.paired,
                    closure |-> function.closure,
                    caller_env |-> self.environment,
                    frame |-> environment, enclosing |-> frame.enclosing,
                    heap |-> Len(self.frames),
                    parameters |-> decl.parameters,
                    arguments |-> arguments, bound |-> frame.values])
        s2 == [s1 EXCEPT !.calls = Append(@, cid), !.ncalls = cid, !.nest = 0]
        r == execute_block(s2, decl.body.statements, environment)
        how == IF r.raised = "" THEN "end" ELSE "raise"
        result == None
        s3 == [Emit(r.self, [ev |-> "exit", id |-> cid, how |-> how,
                             value |-> result, environment |-> r.self.environment])
               EXCEPT !.calls = self.calls, !.nest = self.nest]
    IN  IF r.raised = "" THEN Val(s3, result)
        ELSE Exc(s3, r.raised, r.exc)

\* HixaFunction.call(interpreter, arguments) on the function object id
HixaFunction_call(self, id, arguments) ==
    LET function == self.objects[id]
        decl == function.declaration.v
        environment == Len(self.frames) + 1
        frame == [Environment(function.closure) EXCEPT
                    !.values = bind(@, decl.parameters, arguments)]
        cid == self.ncalls + 1
        s1 == Emit([self EXCEPT !.frames = Append(@, frame)],
                   [ev |-> "call", id |-> cid, function |-> id,
                    captured |-> function.captured,
                    paired |-> function.paired,
                    closure |-> function.closure,
                    caller_env |-> self.environment,
                    frame |-> environment, enclosing |-> frame.enclosing,
                    heap |-> Len(self.frames),
                    parameters |-> decl.parameters,
                    arguments |-> arguments, bound |-> frame.values])
        s2 == [s1 EXCEPT !.calls = Append(@, cid), !.ncalls = cid, !.nest = 0]
        r == execute_block(s2, decl.body.statements, environment)
        how == IF r.raised = "Return" THEN "return"
               ELSE IF r.raised = "" THEN "end" ELSE "raise"
        result == IF r.raised = "Return" THEN r.exc ELSE None
        s3 == [Emit(r.self, [ev |-> "exit", id |-> cid, how |-> how,
                             value |-> result, environment |-> r.self.environment])
               EXCEPT !.calls = self.calls, !.nest = self.nest]
    IN  IF r.raised \in {"", "Return"} THEN Val(s3, result)
        ELSE Exc(s3, r.raised, r.exc)

\* A call expression that does not compare the argument count with the
\* parameter count.
visit_call_expression_unchecked(self, node) ==
    LET callee == evaluate(self, node.callee)
    IN  IF callee.raised # "" THEN callee ELSE
        LET args == evaluate_arguments(callee.self, node.arguments, <<>>)
        IN  IF args.raised # "" THEN args
            ELSE IF callee.value.t = "HixaFunction"
            THEN HixaFunction_call(args.self, callee.value.v, args.value)
            ELSE IF callee.value.t = "builtin"
            THEN native(args.self, callee.value.v, args.value)
            ELSE RuntimeError(args.self, "Can only call functions")

visit_call_expression(self, node) ==
    LET callee == evaluate(self, node.callee)
    IN  IF callee.raised # "" THEN callee ELSE
        LET args == evaluate_arguments(callee.self, node.arguments, <<>>)
        IN  IF args.raised # "" THEN args ELSE
            LET s == args.self
                arguments == args.value
            IN  IF callee.value.t = "HixaFunction"
                THEN LET decl == s.objects[callee.value.v].declaration
                     IN  IF decl.t # "FunctionDeclaration"
                         THEN Exc(s, "AttributeError", Message("parameters"))
                         ELSE IF Len(arguments) # Len(decl.v.parameters)
                         THEN Exc(s, "RuntimeError",
                                  [message |-> "Expected arguments but got",
                                   detail |-> <<Len(decl.v.parameters),
                                                Len(arguments)>>])
                         ELSE HixaFunction_call(s, callee.value.v, arguments)
                ELSE IF callee.value.t = "builtin"
                THEN native(s, callee.value.v, arguments)
                ELSE RuntimeError(s, "Can only call functions")

\* for statement in statements: self.execute(statement)
statements_loop(self, stmts, i) ==
    IF i > Len(stmts) THEN Val(self, None)
    ELSE LET r == execute(Emit(self, [ev |-> "execute", kind |-> stmts[i].node,
                                      index |-> i]), stmts[i])
         IN  IF r.raised # "" THEN r ELSE statements_loop(r.self, stmts, i + 1)

\* An execute_block without the `finally`: the frame of the block stays
\* the current one.
execute_block_leak(self, stmts, environment) ==
    LET saved == self.environment
        s1 == [self EXCEPT !.environment = environment,
                           !.scopes = Append(@, [ev |-> "enter", frame |-> environment,
                                                 previous |-> saved])]
        r == statements_loop(s1, stmts, 1)
    IN  [r EXCEPT !.self.scopes =
                     Append(@, [ev |-> "leave", frame |-> environment, how |-> r.raised,
                                environment |-> r.self.environment])]

\* previous = self.environment; try: ... finally: self.environment = previous
\* (scopes records each entry and each exit with the current environment).
execute_block(self, stmts, environment) ==
    LET saved == self.environment
        s1 == [self EXCEPT !.environment = environment,
                           !.scopes = Append(@, [ev |-> "enter", frame |-> environment,
                                                 previous |-> saved])]
        r == statements_loop(s1, stmts, 1)
        s2 == [r.self EXCEPT !.environment = saved]
    IN  [r EXCEPT !.self = [s2 EXCEPT !.scopes =
                     Append(@, [ev |-> "leave", frame |-> environment, how |-> r.raised,
                                environment |-> s2.environment])]]

\* A block statement that runs its statements in the current frame.
visit_block_statement_flat(self, node) ==
    LET s1 == [self EXCEPT !.nest = @ + 1]
        r == execute_block(s1, node.statements, self.environment)
    IN  [r EXCEPT !.self.nest = self.nest, !.value = None]

visit_block_statement(self, node) ==
    LET environment == Len(self.frames) + 1
        s1 == [self EXCEPT !.frames = Append(@, Environment(EnvRef(self.environment))),
                           !.nest = @ + 1]
        r == execute_block(s1, node.statements, environment)
    IN  [r EXCEPT !.self.nest = self.nest, !.value = None]

visit_if_statement(self, node) ==
    LET c == evaluate(self, node.condition)
    IN  IF c.raised # "" THEN c ELSE
        LET s1 == [c.self EXCEPT !.nest = @ + 1]
            r == IF _is_truthy(c.value) THEN execute(s1, node.then_branch)
                 ELSE IF node.else_branch.node # "None"
                 THEN execute(s1, node.else_branch)
                 ELSE Val(s1, None)
        IN  [r EXCEPT !.self.nest = self.nest, !.value = None]

visit_while_statement(self, node) ==
    LET c == evaluate(self, node.condition)
    IN  IF c.raised # "" THEN c
        ELSE IF ~_is_truthy(c.value) THEN Val(c.self, None)
        ELSE LET r == execute([c.self EXCEPT !.nest = @ + 1], node.body)
                 s2 == [r.self EXCEPT !.nest = self.nest]
             IN  IF r.raised # "" THEN [r EXCEPT !.self = s2]
                 ELSE visit_while_statement(s2, node)

\* The `while True` loop of visit_for_statement.
for_loop(self, node) ==
    LET c == IF node.condition.node # "None" THEN evaluate(self, node.condition)
             ELSE Val(self, PyBool(TRUE))
    IN  IF c.raised # "" THEN c
        ELSE IF ~_is_truthy(c.value) THEN Val(c.self, None)
        ELSE LET r == execute([c.self EXCEPT !.nest = @ + 1], node.body)
                 s2 == [r.self EXCEPT !.nest = self.nest]
             IN  IF r.raised # "" THEN [r EXCEPT !.self = s2]
                 ELSE LET inc == IF node.increment.node # "None"
                                 THEN evaluate(s2, node.increment)
                                 ELSE Val(s2, None)
                      IN  IF inc.raised # "" THEN inc ELSE for_loop(inc.self, node)

visit_for_statement(self, node) ==
    LET init == IF node.initializer.node # "None" THEN execute(self, node.initializer)
                ELSE Val(self, None)
    IN  IF init.raised # "" THEN init ELSE for_loop(init.self, node)

visit_return_statement(self, node) ==
    LET r == IF node.value.node # "None" THEN evaluate(self, node.value)
             ELSE Val(self, None)
    IN  IF r.raised # "" THEN r
        ELSE Exc(Emit(r.self, [ev |-> "return", value |-> r.value,
                               given |-> node.value.node # "None"]),
                 "Return", r.value)

AttributeNames == {<<"c", "l", "o", "s", "u", "r", "e">>,
                   <<"d", "e", "c", "l", "a", "r", "a", "t", "i", "o", "n">>}

\* Property names of the modelled object literals: none is the name of a
\* method or attribute of a Python list or dict.
PropertyNames == {<<"k">>}

visit_array_expression(self, node) ==
    LET elements == evaluate_arguments(self, node.elements, <<>>)
    IN  IF elements.raised # "" THEN elements
        ELSE Val([elements.self EXCEPT !.heap =
                     Append(@, [class |-> "list", items |-> elements.value])],
                 ListRef(Len(elements.self.heap) + 1))

\* for property_ in node.properties: obj[property_.key] = evaluate(property_.value)
evaluate_properties(self, properties, obj) ==
    IF properties = <<>> THEN Val(self, obj)
    ELSE LET r == evaluate(self, Head(properties).value)
         IN  IF r.raised # "" THEN r
             ELSE evaluate_properties(r.self, Tail(properties),
                                      (Head(properties).key :> r.value) @@ obj)

visit_object_expression(self, node) ==
    LET obj == evaluate_properties(self, node.properties, <<>>)
    IN  IF obj.raised # "" THEN obj
        ELSE Val([obj.self EXCEPT !.heap =
                     Append(@, [class |-> "dict", items |-> obj.value])],
                 DictRef(Len(obj.self.heap) + 1))

\* getattr(object_, name).  Modelled for the attributes of AttributeNames:
\* a HixaFunction has them, the other values raise AttributeError.
getattr(self, object_, name) ==
    IF object_.t \in {"list", "dict"} /\ name \in PropertyNames
    THEN Exc(self, "AttributeError", [message |-> "getattr", detail |-> name])
    ELSE IF name \notin AttributeNames THEN Exc(self, "Unmodelled", Message("getattr"))
    ELSE IF object_.t = "HixaFunction"
    THEN Val(self, IF name = <<"c", "l", "o", "s", "u", "r", "e">>
                   THEN self.objects[object_.v].closure
                   ELSE self.objects[object_.v].declaration)
    ELSE Exc(self, "AttributeError", [message |-> "getattr", detail |-> name])

\* setattr(object_, name, value).  int, float, bool, str, None, bound
\* methods, lists and dicts accept no attribute; a HixaFunction accepts any (only those of
\* AttributeNames are modelled).
setattr(self, object_, name, value) ==
    IF object_.t \in {"int", "float", "bool", "str", "NoneType", "builtin", "list", "dict"}
    THEN Exc(self, "AttributeError", [message |-> "setattr", detail |-> name])
    ELSE IF object_.t = "HixaFunction" /\ name \in AttributeNames
    THEN Val(Emit(IF name = <<"c", "l", "o", "s", "u", "r", "e">>
                  THEN [self EXCEPT !.objects[object_.v].closure = value,
                                    !.objects[object_.v].paired = value]
                  ELSE [self EXCEPT !.objects[object_.v].declaration = value],
                  [ev |-> "setattr", function |-> object_.v, name |-> name,
                   value |-> value]), None)
    ELSE Exc(self, "Unmodelled", Message("setattr"))

visit_assignment_expression(self, node) ==
    LET value == evaluate(self, node.value)
    IN  IF value.raised # "" THEN value
        ELSE IF node.target.node = "Identifier"
        THEN assign_variable(value.self, node.target.name, value.value)
        ELSE IF node.target.node = "MemberExpression"
        THEN LET object_ == evaluate(value.self, node.target.object_)
             IN  IF object_.raised # "" THEN object_
                 ELSE IF node.target.property.node = "Identifier"
                 THEN LET r == setattr(object_.self, object_.value,
                                       node.target.property.name, value.value)
                      IN  IF r.raised # "" THEN r ELSE Val(r.self, value.value)
                 ELSE RuntimeError(object_.self,
                                   "Only identifiers can be used as object properties")
        ELSE RuntimeError(value.self, "Invalid assignment target")

visit_member_expression(self, node) ==
    LET object_ == evaluate(self, node.object_)
    IN  IF object_.raised # "" THEN object_
        ELSE IF node.property.node = "Identifier"
        THEN getattr(object_.self, object_.value, node.property.name)
        ELSE RuntimeError(object_.self,
                          "Only identifiers can be used as object properties")

\* node.accept(visitor)
accept(self, node) ==
    CASE node.node = "FunctionDeclaration" -> visit_function_declaration(self, node)
      [] node.node = "VariableDeclaration" -> visit_variable_declaration(self, node)
      [] node.node = "BinaryExpression" -> visit_binary_expression(self, node)
      [] node.node = "UnaryExpression" -> visit_unary_expression(self, node)
      [] node.node = "Literal" -> visit_literal(self, node)
      [] node.node = "Identifier" -> visit_identifier(self, node)
      [] node.node = "CallExpression" -> visit_call_expression(self, node)
      [] node.node = "BlockStatement" -> visit_block_statement(self, node)
      [] node.node = "IfStatement" -> visit_if_statement(self, node)
      [] node.node = "WhileStatement" -> visit_while_statement(self, node)
      [] node.node = "ForStatement" -> visit_for_statement(self, node)
      [] node.node = "ReturnStatement" -> visit_return_statement(self, node)
      [] node.node = "AssignmentExpression" -> visit_assignment_expression(self, node)
      [] node.node = "MemberExpression" -> visit_member_expression(self, node)
      [] node.node = "ArrayExpression" -> visit_array_expression(self, node)
      [] node.node = "ObjectExpression" -> visit_object_expression(self, node)
      [] OTHER -> Exc(self, "Unmodelled", Message(node.node))

execute(self, stmt) == accept(self, stmt)

evaluate(self, expression_) == accept(self, expression_)

\* Interpreter.interpret(statements): RuntimeError is re-raised, every other
\* exception passes through untouched.
interpret(self, stmts) == statements_loop(self, stmts, 1)

(***************************************************************************)
(* Programs given to the evaluator: each is one list of statements handed  *)
(* to interpret() on the same interpreter (as the REPL does line by line). *)
(***************************************************************************)
N(name) == <<name>>

IntLit(n) == Literal(PyInt(n), "int")

BoolLit(b) == Literal(PyBool(b), "boolean")

Let(name, init) == VariableDeclaration(N(name), NoText, init)

Set(name, value) == AssignmentExpression(Identifier(N(name)), <<"=">>, value)

Var(name) == Identifier(N(name))

Call0(name) == CallExpression(Var(name), <<>>)

Fn(name, params, body) ==
    FunctionDeclaration(N(name), [i \in 1..Len(params) |-> Parameter(N(params[i]), NoText)],
                        NoText, BlockStatement(body))

Plus(left, right) == BinaryExpression(left, <<"+">>, right)

Member(name, attribute) == MemberExpression(Var(name), Identifier(attribute), FALSE)

A_closure == <<"c", "l", "o", "s", "u", "r", "e">>

\* fn f() { return x; }
Fn_f == Fn("f", <<>>, <<ReturnStatement(Var("x"))>>)

\* fn g() { let x = 2; return f(); }
Fn_g == Fn("g", <<>>, <<Let("x", IntLit(2)), ReturnStatement(Call0("f"))>>)

\* fn h(a, b) { if (a) { while (true) { { return b; } } } x = a; return; }
Fn_h ==
    Fn("h", <<"a", "b">>,
       <<IfStatement(Var("a"),
            BlockStatement(<<WhileStatement(BoolLit(TRUE),
                BlockStatement(<<BlockStatement(<<ReturnStatement(Var("b"))>>)>>))>>),
            NoNode),
         Set("x", Var("a")),
         ReturnStatement(NoNode)>>)

\* fn k() { let r = h(true, 7); x = r; return r + 1; }
Fn_k ==
    Fn("k", <<>>,
       <<Let("r", CallExpression(Var("h"), <<BoolLit(TRUE), IntLit(7)>>)),
         Set("x", Var("r")),
         ReturnStatement(Plus(Var("r"), IntLit(1)))>>)

\* fn s() { let x = 3; fn i() { return 0; } f.closure = i.closure; return f(); }
Fn_s ==
    Fn("s", <<>>,
       <<Let("x", IntLit(3)),
         Fn("i", <<>>, <<ReturnStatement(IntLit(0))>>),
         AssignmentExpression(Member("f", A_closure), <<"=">>, Member("i", A_closure)),
         ReturnStatement(Call0("f"))>>)

\* fn p(x) { x = x + 1; return x; }
Fn_p == Fn("p", <<"x">>, <<Set("x", Plus(Var("x"), IntLit(1))), ReturnStatement(Var("x"))>>)

\* fn c() { let n = 0; fn inc() { n = n + 1; return n; } return inc; }
Fn_c ==
    Fn("c", <<>>,
       <<Let("n", IntLit(0)),
         Fn("q", <<>>, <<Set("n", Plus(Var("n"), IntLit(1))), ReturnStatement(Var("n"))>>),
         ReturnStatement(Var("q"))>>)

Functions == <<Fn_f, Fn_g, Fn_h, Fn_k, Fn_s, Fn_p, Fn_c>>

Lines ==
    {<<Let("x", IntLit(1))>> \o Functions, Functions}
    \cup {<<Let("x", IntLit(2))>>, <<Set("x", IntLit(5))>>,
          <<Set("x", IntLit(6)), Let("r", Call0("f"))>>}
    \cup {<<Let("r", Call0(fname))>> : fname \in {"f", "g", "k", "s"}}
    \cup {<<Let("r", CallExpression(Var("h"), <<BoolLit(b), IntLit(3)>>))>>
          : b \in BOOLEAN}
    \cup {<<Let("r", CallExpression(Var("p"), <<IntLit(10)>>))>>}
    \* { let x = 9; x = 8; y = 1; }
    \cup {<<BlockStatement(<<Let("x", IntLit(9)), Set("x", IntLit(8)),
                             Set("y", IntLit(1))>>)>>}
    \cup {<<Var("y")>>}
    \* let i = c(); let r = i(); r = i();
    \cup {<<Let("i", Call0("c")), Let("r", Call0("i")), Set("r", Call0("i"))>>}

NoResult == [raised |-> "", exc |-> None]

\* interpreter.interpret(statements) for one more line.
Interpret ==
    /\ pc = "eval"
    /\ steps < MaxSteps
    /\ \E line \in Lines :
         LET r == interpret([interp EXCEPT !.trace = <<>>, !.scopes = <<>>], line)
         IN  /\ program' = line
             /\ interp' = r.self
             /\ last' = [raised |-> r.raised, exc |-> r.exc]
    /\ steps' = steps + 1
    /\ UNCHANGED frontVars

\* The loop of Parser.parse(): the parser after it and the statements of
\* the Program it returns.
RECURSIVE parse_loop(_, _)
parse_loop(self, stmts) ==
    IF is_at_end(self) THEN [self |-> self, statements |-> stmts]
    ELSE With(declaration(self), LAMBDA d :
         parse_loop(d.self, IF d.node.node # "None" THEN Append(stmts, d.node)
                            ELSE stmts))

parse(self) == parse_loop(self, <<>>)

\* No errors were recorded: interpreter = Interpreter();
\* interpreter.interpret(ast.statements)
Execute ==
    /\ pc = "parsed"
    /\ parser.errors = <<>>
    /\ LET r == interpret(Interpreter, statements)
       IN  /\ program' = statements
           /\ interp' = r.self
           /\ last' = [raised |-> r.raised, exc |-> r.exc]
    /\ pc' = "executed"
    /\ UNCHANGED <<input, source, lexer, parser, statements, steps>>

\* run(file) as a function of the source text: where it ends ("executed",
\* "exit" on parse errors, "lexical_failure"), with what exception, and
\* the interpreter it leaves.
run(text) ==
    LET lexed == tokenize(Lexer(text))
    IN  IF lexed.raised
        THEN [pc |-> "lexical_failure", raised |-> "", exc |-> None,
              interp |-> Interpreter]
        ELSE LET ast == parse(Parser(lexed.self.tokens))
             IN  IF ast.self.errors # <<>>
                 THEN [pc |-> "exit", raised |-> "", exc |-> None,
                       interp |-> Interpreter]
                 ELSE LET r == interpret(Interpreter, ast.statements)
                      IN  [pc |-> "executed", raised |-> r.raised, exc |-> r.exc,
                           interp |-> r.self]

(***************************************************************************)
(* Specifications.                                                         *)
(***************************************************************************)
Init ==
    /\ \E p \in Programs :
         /\ input = p
         /\ source = Render(p)
         /\ lexer = Lexer(Render(p))
    /\ pc = "source"
    /\ parser = Parser(<<>>)
    /\ statements = <<>>
    /\ program = NoProgram
    /\ interp = Interpreter
    /\ steps = 0
    /\ last = NoResult

Next ==
    \/ Tokenize \/ NewParser \/ ParseDeclaration \/ ParseReturn
    \/ ExitParseErrors \/ Execute

Spec == Init /\ [][Next]_vars

EvalInit ==
    /\ input = <<>>
    /\ source = <<>>
    /\ lexer = Lexer(<<>>)
    /\ pc = "eval"
    /\ parser = Parser(<<>>)
    /\ statements = <<>>
    /\ program = NoProgram
    /\ interp = Interpreter
    /\ steps = 0
    /\ last = NoResult

EvalNext == Interpret

EvalSpec == EvalInit /\ [][EvalNext]_vars

(***************************************************************************)
(* Programs run from a fresh interpreter (as `hixa run` does): each is the *)
(* statement list given to Interpreter().interpret().                      *)
(***************************************************************************)
A_print == <<"p", "r", "i", "n", "t">>

CallPrint(argument) == CallExpression(Identifier(A_print), <<argument>>)

\* fn m(a, b) { print(1); return a; }
Fn_m == Fn("m", <<"a", "b">>, <<CallPrint(IntLit(1)), ReturnStatement(Var("a"))>>)

ArgLists == <<<<>>, <<IntLit(7)>>, <<IntLit(7), IntLit(8)>>,
             <<IntLit(7), IntLit(8), IntLit(9)>>>>

\* <declaration> let r = <name>(<arguments>); print(2);
ArityProgram(decl, arguments) ==
    <<decl, Let("r", CallExpression(Identifier(decl.name), arguments)),
      CallPrint(IntLit(2))>>

Lit(value) == Literal(value, value.t)

OperandValues ==
    <<PyInt(0), PyInt(7), PyInt(0 - 3), [t |-> "float", v |-> <<0, 1>>],
      [t |-> "float", v |-> <<5, 2>>], PyBool(TRUE), PyBool(FALSE), None,
      PyStr(<<>>), PyStr(<<"a">>)>>

ArithmeticOps == <<<<"+">>, <<"-">>, <<"*">>, <<"/">>, <<"%">>>>

\* let r = <left> <op> <right>;
BinaryProgram(left, op, right) ==
    <<Let("r", BinaryExpression(Lit(left), op, Lit(right)))>>

\* let t = 0; if (<condition>) { t = 1; } [else { t = 2; }]
IfProgram(condition, else_) ==
    <<Let("t", IntLit(0)),
      IfStatement(Lit(condition), BlockStatement(<<Set("t", IntLit(1))>>),
                  IF else_ THEN BlockStatement(<<Set("t", IntLit(2))>>) ELSE NoNode)>>

LogicalOps == <<<<"&", "&">>, <<"|", "|">>>>

\* fn a() { print(1); return <left>; } fn b() { print(2); return <right>; }
\* let r = a() <op> b();
LogicalProgram(left, op, right) ==
    <<Fn("a", <<>>, <<CallPrint(IntLit(1)), ReturnStatement(Lit(left))>>),
      Fn("b", <<>>, <<CallPrint(IntLit(2)), ReturnStatement(Lit(right))>>),
      Let("r", BinaryExpression(Call0("a"), op, Call0("b")))>>

\* Programs whose first or second statement fails, followed by print(2):
\*   return 1;   let x = 1; x.closure;   let x = 1; x.closure = 2;
\*   let x = 1; x();   y;
FailurePrograms ==
    <<<<ReturnStatement(IntLit(1)), CallPrint(IntLit(2))>>,
      <<Let("x", IntLit(1)), Member("x", A_closure), CallPrint(IntLit(2))>>,
      <<Let("x", IntLit(1)),
        AssignmentExpression(Member("x", A_closure), <<"=">>, IntLit(2)),
        CallPrint(IntLit(2))>>,
      <<Let("x", IntLit(1)), Call0("x"), CallPrint(IntLit(2))>>,
      <<Var("y"), CallPrint(IntLit(2))>>>>

A_add_kora == <<"a", "d", "d", "_", "k", "o", "r", "a">>

A_len == <<"l", "e", "n">>

\* let a = [<elements>]; let b = a; add_kora(<through>, <item>); let n = len(<other>);
ArrayAlias(elements, through, other, item) ==
    <<Let("a", ArrayExpression(elements)),
      Let("b", Var("a")),
      CallExpression(Identifier(A_add_kora), <<Var(through), item>>),
      VariableDeclaration(N("n"), NoText, CallExpression(Identifier(A_len), <<Var(other)>>))>>

\* let o = {k: 1}; let p = o; <through>.k = <value>; let r = <other>.k;
ObjectAlias(through, other, value) ==
    <<Let("o", ObjectExpression(<<Property(<<"k">>, IntLit(1))>>)),
      Let("p", Var("o")),
      AssignmentExpression(Member(through, <<"k">>), <<"=">>, value),
      Let("r", Member(other, <<"k">>))>>

AliasPrograms ==
    <<ArrayAlias(<<IntLit(1)>>, "a", "b", IntLit(2)),
      ArrayAlias(<<>>, "b", "a", BoolLit(TRUE)),
      ArrayAlias(<<IntLit(1), IntLit(2)>>, "b", "a", IntLit(3)),
      ObjectAlias("o", "p", IntLit(2)),
      ObjectAlias("p", "o", BoolLit(TRUE))>>

\* The statements of an inner scope: let x = <value>; let y = 3; likha(x);
Inner(value) == <<Let("x", value), Let("y", IntLit(3)), CallPrint(Var("x"))>>

\* [let x = 1;]  { <inner> }  or  fn f() { <inner> } f();
\* then  let r = x; let q = y;
ScopeProgram(outer, kind, value) ==
    (IF outer THEN <<Let("x", IntLit(1))>> ELSE <<>>)
    \o (IF kind = "block" THEN <<BlockStatement(Inner(value))>>
        ELSE <<Fn("f", <<>>, Inner(value)), Call0("f")>>)
    \o <<Let("r", Var("x")), Let("q", Var("y"))>>

ScopeValues == <<IntLit(2), BoolLit(TRUE)>>

\* fn w() { { y; } }
Fn_w == Fn("w", <<>>, <<BlockStatement(<<Var("y")>>)>>)

\* Programs whose blocks and calls finish in every way:
\*   let x = 0; <h> let r = h(true, 7);      (return out of nested blocks)
\*   let x = 0; <h> let r = h(false, 7);     (return at the end of the body)
\*   { let x = 9; x = 8; y = 1; }            (error in a block)
\*   <w> w();                                (error in a block in a call)
\*   { { let x = 1; } let z = 2; } let r = 3;   (blocks that reach their end)
LeavePrograms ==
    <<<<Let("x", IntLit(0)), Fn_h,
        Let("r", CallExpression(Var("h"), <<BoolLit(TRUE), IntLit(7)>>))>>,
      <<Let("x", IntLit(0)), Fn_h,
        Let("r", CallExpression(Var("h"), <<BoolLit(FALSE), IntLit(7)>>))>>,
      <<BlockStatement(<<Let("x", IntLit(9)), Set("x", IntLit(8)), Set("y", IntLit(1))>>)>>,
      <<Fn_w, Call0("w")>>,
      <<BlockStatement(<<BlockStatement(<<Let("x", IntLit(1))>>), Let("z", IntLit(2))>>),
        Let("r", IntLit(3))>>>>

\* The programs, each named by its family and the indices of its parts.
RunInputs ==
    ({"arity"} \X (1..3) \X (1..Len(ArgLists)) \X {0})
    \cup ({"binary"} \X (1..Len(OperandValues)) \X (1..Len(ArithmeticOps))
                     \X (1..Len(OperandValues)))
    \cup ({"if"} \X (1..Len(OperandValues)) \X (0..1) \X {0})
    \cup ({"logical"} \X (1..Len(OperandValues)) \X (1..Len(LogicalOps))
                      \X (1..Len(OperandValues)))
    \cup ({"failure"} \X (1..Len(FailurePrograms)) \X {0} \X {0})
    \cup ({"alias"} \X (1..Len(AliasPrograms)) \X {0} \X {0})
    \cup ({"scope"} \X (0..1) \X {"block", "function"} \X (1..Len(ScopeValues)))
    \cup ({"leave"} \X (1..Len(LeavePrograms)) \X {0} \X {0})

ProgramOf(in) ==
    CASE in[1] = "arity" -> ArityProgram(<<Fn_m, Fn_p, Fn_g>>[in[2]], ArgLists[in[3]])
      [] in[1] = "binary" ->
           BinaryProgram(OperandValues[in[2]], ArithmeticOps[in[3]],
                         OperandValues[in[4]])
      [] in[1] = "if" -> IfProgram(OperandValues[in[2]], in[3] = 1)
      [] in[1] = "failure" -> FailurePrograms[in[2]]
      [] in[1] = "alias" -> AliasPrograms[in[2]]
      [] in[1] = "leave" -> LeavePrograms[in[2]]
      [] in[1] = "scope" -> ScopeProgram(in[2] = 1, in[3], ScopeValues[in[4]])
      [] in[1] = "logical" ->
           LogicalProgram(OperandValues[in[2]], LogicalOps[in[3]],
                          OperandValues[in[4]])

\* interpreter = Interpreter(); interpreter.interpret(ast.statements)
Run ==
    /\ pc = "run"
    /\ \E in \in RunInputs :
         LET r == interpret(Interpreter, ProgramOf(in))
         IN  /\ program' = ProgramOf(in)
             /\ interp' = r.self
             /\ last' = [raised |-> r.raised, exc |-> r.exc]
    /\ pc' = "ran"
    /\ UNCHANGED <<input, source, lexer, parser, statements, steps>>

RunInit ==
    /\ input = <<>>
    /\ source = <<>>
    /\ lexer = Lexer(<<>>)
    /\ pc = "run"
    /\ parser = Parser(<<>>)
    /\ statements = <<>>
    /\ program = NoProgram
    /\ interp = Interpreter
    /\ steps = 0
    /\ last = NoResult

RunNext == Run

RunSpec == RunInit /\ [][RunNext]_vars

(***************************************************************************)
(* Source texts given to a fresh Lexer: every text of at most MaxText      *)
(* characters over an alphabet with an identifier, a digit, a blank, a     *)
(* line break, the slash of comments, the quote of strings and a character *)
(* no pattern matches.                                                     *)
(***************************************************************************)
TextChars == {"x", "1", " ", "\n", "/", "\"", "@"}

Texts == UNION {[1..n -> TextChars] : n \in 0..MaxText}

LexInit ==
    /\ \E text \in Texts :
         /\ source = text
         /\ lexer = Lexer(text)
    /\ input = <<>>
    /\ pc = "source"
    /\ parser = Parser(<<>>)
    /\ statements = <<>>
    /\ program = NoProgram
    /\ interp = Interpreter
    /\ steps = 0
    /\ last = NoResult

LexNext == Tokenize

LexSpec == LexInit /\ [][LexNext]_vars

\* The modelled programs stay inside the modelled part of the host language.
Modelled == last.raised # "Unmodelled"

(***************************************************************************)
(* Properties of the front end (specification Spec).                       *)
(***************************************************************************)
Parsed == pc = "parsed"

\* The node a well-formed declaration or expression statement stands for.
NodeOf(form) ==
    IF form.kind = "decl"
    THEN VariableDeclaration(<<form.name>>, NoText,
                             Literal(PyInt(form.value), "int"))
    ELSE Identifier(<<form.name>>)

NodesOf(forms) == [i \in 1..Len(forms) |-> NodeOf(forms[i])]

\* C1: a program of k >= 1 well-formed variable declarations, each
\* terminated by ";", parses to exactly k declaration nodes in source order
\* and records no syntax error.
C1_EveryDeclarationParsed ==
    (Parsed /\ input # <<>> /\ \A i \in 1..Len(input) : input[i] \in WellFormedDecls)
        => (statements = NodesOf(input) /\ parser.errors = <<>>)

\* C2: a variable declaration or expression statement parses to the same
\* node, without a syntax error, whether it is terminated by ";", by a line
\* break or by end-of-input.
C2_TerminatorsEquivalent ==
    (Parsed /\ Len(input) = 1 /\ input[1].kind \in {"decl", "name"})
        => (statements = NodesOf(input) /\ parser.errors = <<>>)

\* C3: after a syntax error parsing resumes at the next statement: in a
\* program whose only malformed statement is followed by well-formed
\* declarations, the error is recorded, the declarations after the malformed
\* statement's ";" all get their nodes, and the malformed declaration gets
\* none.
C3_LaterStatementsParsed ==
    \A m \in 1..Len(input) :
        (/\ Parsed
         /\ input[m].kind \in {"noinit", "badinit"}
         /\ \A i \in 1..Len(input) : i # m => input[i] \in WellFormedDecls)
        => (/\ parser.errors # <<>>
            /\ statements = NodesOf(SubSeq(input, 1, m - 1))
                            \o NodesOf(SubSeq(input, m + 1, Len(input))))

\* C4: whenever parsing one declaration records a syntax error, that
\* declaration adds no node to the statement list.
C4_FailedDeclarationAddsNoNode ==
    [][Len(parser'.errors) > Len(parser.errors) => statements' = statements]_vars

(***************************************************************************)
(* Reference grouping of a chain of binary operators: the root is the last *)
(* operator of the lowest binding level.                                   *)
(***************************************************************************)
BindingLevel(op) ==
    CASE op = <<"|", "|">> -> 1
      [] op = <<"&", "&">> -> 2
      [] op \in {<<"=", "=">>, <<"!", "=">>} -> 3
      [] op \in {<<"<">>, <<"<", "=">>, <<">">>, <<">", "=">>} -> 4
      [] op \in {<<"+">>, <<"-">>} -> 5
      [] op \in {<<"*">>, <<"/">>, <<"%">>} -> 6

RootOf(ops) ==
    CHOOSE i \in 1..Len(ops) :
        /\ \A j \in 1..Len(ops) : BindingLevel(ops[i]) <= BindingLevel(ops[j])
        /\ \A j \in (i + 1)..Len(ops) : BindingLevel(ops[i]) < BindingLevel(ops[j])

RECURSIVE Grouping(_, _)
Grouping(operands, ops) ==
    IF ops = <<>> THEN operands[1]
    ELSE LET i == RootOf(ops)
         IN  BinaryExpression(
                 Grouping(SubSeq(operands, 1, i), SubSeq(ops, 1, i - 1)),
                 ops[i],
                 Grouping(SubSeq(operands, i + 1, Len(operands)),
                          SubSeq(ops, i + 1, Len(ops))))

OperandsOf(lexemes) ==
    [i \in 1..((Len(lexemes) + 1) \div 2) |-> Identifier(lexemes[2 * i - 1])]

OperatorsOf(lexemes) == [i \in 1..(Len(lexemes) \div 2) |-> lexemes[2 * i]]

SumNumbers == {1, 2, 3, 10, 42}

Respelled(k, lexeme) == FormText([input[1] EXCEPT !.lexemes[k] = lexeme])

\* C18: the two spellings of a keyword, tokenized at the same source
\* position, give tokens of the same kind, line and column.
C18_KeywordSpellingsSameKind ==
    (pc = "tokens" /\ Len(input) = 1 /\ input[1].kind \in {"logic", "not", "fn", "if"})
        => \A k \in DOMAIN input[1].lexemes : \A s \in KeywordSpellings :
               input[1].lexemes[k] \in {s[1], s[2]}
                   => \A other \in {s[1], s[2]} :
                          LET token == tokenize(Lexer(Respelled(k, other))).self.tokens[k]
                          IN  /\ token.type = lexer.tokens[k].type
                              /\ token.line = lexer.tokens[k].line
                              /\ token.column = lexer.tokens[k].column

\* The ForStatement that `for (<init> i = 0; i < 3; i = i + 1) { }` stands
\* for: the initializer is a declaration when the form has a `let`.
ForNode(form) ==
    ForStatement(
        IF form.lexemes[3] \in {K_let, K_dhora}
        THEN VariableDeclaration(<<"i">>, NoText, Literal(PyInt(0), "int"))
        ELSE AssignmentExpression(Identifier(<<"i">>), <<"=">>, Literal(PyInt(0), "int")),
        BinaryExpression(Identifier(<<"i">>), <<"<">>, Literal(PyInt(3), "int")),
        AssignmentExpression(
            Identifier(<<"i">>), <<"=">>,
            BinaryExpression(Identifier(<<"i">>), <<"+">>, Literal(PyInt(1), "int"))),
        BlockStatement(<<>>))

\* C20: `for (init; condition; increment) body` parses without error into
\* one ForStatement holding the four parts, with an expression as init and
\* with a variable declaration as init.
C20_ForStatementParsed ==
    (Parsed /\ Len(input) = 1 /\ input[1].kind = "for")
        => (parser.errors = <<>> /\ statements = <<ForNode(input[1])>>)

\* C21: an `if` or `while` whose condition has no parentheses and is
\* followed by a brace block parses to an IfStatement / WhileStatement, the
\* first statement of the program, with a binary `>` condition and non-null
\* branches or body.
C21_BareConditionParsed ==
    (Parsed /\ Len(input) = 1 /\ input[1].kind \in {"bareif", "barewhile"})
        => (/\ statements # <<>>
            /\ statements[1].node = IF input[1].kind = "bareif" THEN "IfStatement"
                                    ELSE "WhileStatement"
            /\ statements[1].condition.node = "BinaryExpression"
            /\ statements[1].condition.operator = <<">">>
            /\ IF input[1].kind = "bareif"
               THEN /\ statements[1].then_branch.node # "None"
                    /\ statements[1].else_branch.node # "None"
               ELSE statements[1].body.node # "None")

\* C22: the boolean literals `true` and `false` are tokenized to tokens of
\* kind BOOLEAN whose values are the texts "true" and "false".
C22_BooleanLiteralTokens ==
    (pc = "tokens" /\ Len(input) = 1)
        => \A k \in DOMAIN input[1].lexemes :
               input[1].lexemes[k] \in {K_true, K_false}
                   => /\ lexer.tokens[k].type = "BOOLEAN"
                      /\ lexer.tokens[k].value = input[1].lexemes[k]

\* The number of tokens of a source form, and the 0-based index of the
\* first token of the i-th form of the input.
TokenCount(form) ==
    Len(form.lexemes) + (IF form.kind # "noinit" /\ form.term = <<";">> THEN 1 ELSE 0)

RECURSIVE FirstToken(_)
FirstToken(i) == IF i = 1 THEN 0 ELSE FirstToken(i - 1) + TokenCount(input[i - 1])

\* What synchronize promises about the parser it returns.
Synchronized(self) ==
    \/ is_at_end(self)
    \/ previous(self).type = "SEMICOLON"
    \/ peek(self).type \in SyncKeywords

\* The 0-based index of the token an error was raised at.
ErrorIndex(self, exc) ==
    CHOOSE k \in 0..(Len(self.tokens) - 1) :
        /\ self.tokens[k + 1].line = exc.line
        /\ self.tokens[k + 1].column = exc.column

\* The tokens synchronize skipped hold the first token of no well-formed
\* declaration of the input.
NothingWellFormedSkipped(from, to) ==
    \A i \in DOMAIN input :
        input[i] \in WellFormedDecls => ~(from <= FirstToken(i) /\ FirstToken(i) < to)

\* The next declaration() raises: it records the wrapped message and
\* synchronizes.
Recovering ==
    /\ pc = "parsing"
    /\ ~is_at_end(parser)
    /\ Len(declaration(parser).self.errors) > Len(parser.errors)
    /\ declaration(parser).self.errors[Len(declaration(parser).self.errors)].wrapped

\* C27: when synchronize returns, the cursor is at end-of-input, or just
\* after a `;`, or at a statement-starting keyword; and the tokens it
\* skipped do not include the keyword that starts a well-formed statement.
C27_SynchronizeStopsAtStatement ==
    Recovering
        => LET d == declaration(parser)
               exc == d.self.errors[Len(d.self.errors)].error
           IN  /\ Synchronized(d.self)
               /\ NothingWellFormedSkipped(ErrorIndex(parser, exc), d.self.current)

\* One iteration of the top-level loop or of the block-statement loop,
\* started with the cursor on token k (not the end-of-input token), leaves
\* the cursor further on and not past the end-of-input token.
IterationAdvances(k) ==
    LET d == declaration([parser EXCEPT !.current = k])
    IN  /\ d.self.current > k
        /\ d.self.current <= Len(parser.tokens) - 1

\* C29: parsing terminates: the cursor never decreases and never passes the
\* end-of-input token, and every iteration of the top-level loop and of the
\* block-statement loop moves the cursor forward, whether it parsed a
\* statement or recovered from an error.
C29_ParseTerminates ==
    /\ [](pc \in {"parsing", "parsed"} => parser.current <= Len(parser.tokens) - 1)
    /\ [](pc = "parsing" /\ parser.current = 0
            => \A k \in 0..(Len(parser.tokens) - 2) : IterationAdvances(k))
    /\ [](pc = "parsed" => is_at_end(parser))
    /\ [][parser'.current >= parser.current]_vars
    /\ [][pc = "parsing" /\ pc' = "parsing" => parser'.current > parser.current]_vars

\* `{ let y = ; x; }` has been parsed: the iteration of the block loop that
\* recovered from the error moved on to `x`, and parsing ended at the
\* end-of-input token.
C29_Witness ==
    /\ Parsed
    /\ Len(input) = 1
    /\ input[1].kind = "block"
    /\ is_at_end(parser)
    /\ Len(parser.errors) = 2
    /\ Len(statements) = 1
    /\ statements[1].node = "BlockStatement"
    /\ Len(statements[1].statements) = 1

(***************************************************************************)
(* Properties of the lexer on arbitrary texts (LexSpec).                   *)
(***************************************************************************)
\* The 1-based line and column of the character at 0-based offset pos.
LineBreaksBefore(src, pos) == {i \in 1..pos : src[i] = "\n"}

LineOf(src, pos) == 1 + Cardinality(LineBreaksBefore(src, pos))

ColumnOf(src, pos) ==
    LET breaks == LineBreaksBefore(src, pos)
    IN  IF breaks = {} THEN pos + 1
        ELSE pos + 1 - (CHOOSE i \in breaks : \A j \in breaks : j <= i)

\* The offsets at which the tokens of Lexer.tokens start: the position of
\* the lexer each time a match that is kept begins.
RECURSIVE TokenStarts(_)
TokenStarts(self) ==
    LET s1 == IF self.position < Len(self.source) THEN _skip_whitespace(self) ELSE self
    IN  IF s1.position >= Len(s1.source) THEN <<s1.position>>
        ELSE LET r == _get_next_token(s1)
             IN  IF r.raised THEN <<>>
                 ELSE IF r.token.type # "COMMENT"
                      THEN <<s1.position>> \o TokenStarts(r.self)
                      ELSE TokenStarts(r.self)

Tokenized == pc = "tokens"

\* C24: the sequence tokenize returns ends with an end-of-input token, holds
\* exactly one end-of-input token and no COMMENT token, and no token starts
\* at the `//` of a comment.
C24_OneEOFNoComment ==
    Tokenized
        => /\ lexer.tokens # <<>>
           /\ lexer.tokens[Len(lexer.tokens)].type = "EOF"
           /\ Cardinality({k \in DOMAIN lexer.tokens : lexer.tokens[k].type = "EOF"}) = 1
           /\ \A k \in DOMAIN lexer.tokens : lexer.tokens[k].type # "COMMENT"
           /\ Len(TokenStarts(Lexer(source))) = Len(lexer.tokens)
           /\ \A k \in DOMAIN lexer.tokens :
                  ~HasText(source, TokenStarts(Lexer(source))[k], <<"/", "/">>)

\* A text with a comment between two tokens has been tokenized.
C24_Witness ==
    /\ Tokenized
    /\ source = <<"x", "/", "/", "\n">>
    /\ Len(lexer.tokens) = 2

Failed == pc = "lexical_failure"

\* C25: when a character matches no pattern, tokenize raises a failure that
\* names that character and its line and column, appends no end-of-input
\* token and records nothing in Lexer.errors.
C25_LexicalFailure ==
    Failed
        => LET r == tokenize(Lexer(source))
           IN  /\ r.raised
               /\ lexer = r.self
               /\ Len(r.error) = 1
               /\ FirstMatch(lexer) = 0
               /\ r.error[1].char = source[lexer.position + 1]
               /\ r.error[1].line = LineOf(source, lexer.position)
               /\ r.error[1].column = ColumnOf(source, lexer.position)
               /\ \A k \in DOMAIN lexer.tokens : lexer.tokens[k].type # "EOF"
               /\ lexer.errors = <<>>

\* C28: the line and column of every emitted token are the 1-based line and
\* column of its first character in the source, also after comments and
\* after string literals that contain line breaks.
C28_TokenLineColumn ==
    Tokenized
        => \A k \in DOMAIN lexer.tokens :
               lexer.tokens[k].type # "EOF"
                   => LET start == TokenStarts(Lexer(source))[k]
                      IN  /\ lexer.tokens[k].line = LineOf(source, start)
                          /\ lexer.tokens[k].column = ColumnOf(source, start)

(***************************************************************************)
(* Properties of whole runs, from source text to the interpreter's result  *)
(* (specification Spec).                                                   *)
(***************************************************************************)
Finished == pc \in {"executed", "exit"}

\* What a run leaves: where it ended, the exception that escaped, and the
\* value of r ("unbound" when r has none).
Outcome(pc_, raised, exc, interp_) ==
    [pc |-> pc_, raised |-> raised,
     exc |-> IF raised = "" THEN <<>> ELSE <<exc>>,
     r |-> IF <<"r">> \in DOMAIN interp_.frames[interp_.globals].values
           THEN <<interp_.frames[interp_.globals].values[<<"r">>]>>
           ELSE <<>>]

OutcomeOf(result) == Outcome(result.pc, result.raised, result.exc, result.interp)

SameOutcome(a, b) ==
    /\ a.pc = b.pc
    /\ a.raised = b.raised
    /\ Len(a.r) = Len(b.r)
    /\ a.r # <<>> => (a.r[1].t = b.r[1].t /\ a.r[1].v = b.r[1].v)
    /\ a.exc = b.exc

CanonicalForm(lexemes) == [i \in 1..Len(lexemes) |-> Canonical(lexemes[i])]

\* C17: a program evaluates to the same result in every spelling of its
\* operators and keywords: `aru` as `&&`, `ba` as `||`, `not_kora` as `!`.
C17_SpellingsEvaluateAlike ==
    (Finished /\ Len(input) = 1 /\ input[1].kind \in {"logic", "not"})
        => \A p \in LogicPrograms :
               CanonicalForm(p[1].lexemes) = CanonicalForm(input[1].lexemes)
                   => SameOutcome(OutcomeOf(run(Render(p))),
                                  Outcome(pc, last.raised, last.exc, interp))

\* The argument of the call statement, as a node and as a value: the name
\* x stands for the declared sum.
ArgumentNode(form) ==
    IF form.lexemes[3] = <<"x">> THEN Identifier(<<"x">>)
    ELSE Literal(PyInt(int(form.lexemes[3])), "int")

ArgumentValue(forms) ==
    IF forms[Len(forms)].lexemes[3] = <<"x">> THEN PyInt(forms[1].value)
    ELSE PyInt(int(forms[Len(forms)].lexemes[3]))

\* C19: a call statement of a registered built-in, alone or after
\* `let x = 5 + 3;`, is parsed into a call expression whose callee is that
\* name, and running the program invokes the built-in once with the
\* evaluated argument.
C19_BuiltinCallInvoked ==
    (Finished /\ input # <<>> /\ input[Len(input)].kind = "call"
              /\ input[Len(input)].lexemes[1] \in DOMAIN stdlib)
        => (/\ pc = "executed"
            /\ Len(statements) = Len(input)
            /\ statements[Len(input)] =
                  CallExpression(Identifier(input[Len(input)].lexemes[1]),
                                 <<ArgumentNode(input[Len(input)])>>)
            /\ last.raised = ""
            /\ interp.output = <<<<ArgumentValue(input)>>>>)

(***************************************************************************)
(* Properties of the evaluator (specification EvalSpec), stated over the   *)
(* record of what the last interpret() did.                                *)
(***************************************************************************)
Trace == interp.trace

Events(kind) == {i \in 1..Len(Trace) : Trace[i].ev = kind}

\* The frames from env outward, innermost first.
RECURSIVE FrameChain(_, _)
FrameChain(frames, env) ==
    IF frames[env].enclosing.t = "Environment"
    THEN <<env>> \o FrameChain(frames, frames[env].enclosing.v)
    ELSE <<env>>

\* The positions of the chain whose frame binds the name.
Binders(frames, chain, name) ==
    {k \in 1..Len(chain) : name \in DOMAIN frames[chain[k]].values}

\* The innermost frame of the chain that binds the name.
Innermost(frames, chain, name) ==
    chain[CHOOSE k \in Binders(frames, chain, name) :
              \A l \in Binders(frames, chain, name) : k <= l]

\* The event that began the call with identity c.
CallOf(c) == Trace[CHOOSE k \in Events("call") : Trace[k].id = c]

\* A read made by the body of call c of a name that no frame created for the
\* call binds.
FreeRead(i) ==
    /\ Trace[i].ev = "get"
    /\ Trace[i].call # 0
    /\ LET e == Trace[i]
           chain == FrameChain(e.frames, e.env)
       IN  \A k \in Binders(e.frames, chain, e.name) : chain[k] < CallOf(e.call).frame

\* What a read of the name finds from the frame env outward.
Resolves(e, env) ==
    LET chain == FrameChain(e.frames, env)
    IN  IF Binders(e.frames, chain, e.name) # {}
        THEN /\ e.raised = ""
             /\ e.value = e.frames[Innermost(e.frames, chain, e.name)].values[e.name]
        ELSE /\ e.raised = "RuntimeError"
             /\ e.exc = Undefined(e.name)

\* C6: a call of a user function runs in a fresh frame whose parent is the
\* environment that was current when the function's declaration was
\* evaluated, whatever the caller's environment is; the parameters are bound
\* positionally in that frame, and a free variable of the body resolves
\* through the chain of the definition site.
C6_CallFrameParentIsDefinitionSite ==
    /\ \A i \in Events("call") :
           LET e == Trace[i]
           IN  /\ e.frame > e.heap
               /\ e.enclosing = EnvRef(e.captured)
               /\ DOMAIN e.bound = {e.parameters[k].name : k \in 1..Len(e.parameters)}
               /\ \A k \in 1..Len(e.parameters) :
                      (\A l \in (k + 1)..Len(e.parameters) :
                           e.parameters[l].name # e.parameters[k].name)
                      => e.bound[e.parameters[k].name] = e.arguments[k]
    /\ \A i \in 1..Len(Trace) :
           FreeRead(i) => Resolves(Trace[i], CallOf(Trace[i].call).captured)

\* C7: a read of a closed-over variable made by a function body returns the
\* value the variable holds when the read happens, so a value assigned after
\* the function was declared is the one a later call observes.
C7_ClosureReadsCurrentValue ==
    \A i \in 1..Len(Trace) :
        (FreeRead(i) /\ CallOf(Trace[i].call).paired.t = "Environment")
            => Resolves(Trace[i], CallOf(Trace[i].call).paired.v)

\* A function that already existed when a variable was assigned reads that
\* variable afterwards and gets the assigned value.
C7_Witness ==
    \E i, j \in 1..Len(Trace) :
        /\ i < j
        /\ Trace[i].ev = "assign"
        /\ Trace[i].raised = ""
        /\ FreeRead(j)
        /\ Trace[j].name = Trace[i].name
        /\ CallOf(Trace[j].call).function <= Trace[i].nobjects
        /\ Innermost(Trace[j].frames, FrameChain(Trace[j].frames, Trace[j].env), Trace[j].name)
               = Innermost(Trace[i].before, FrameChain(Trace[i].before, Trace[i].env),
                           Trace[i].name)
        /\ Trace[j].raised = ""
        /\ Trace[j].value = Trace[i].value
        /\ \A k \in (i + 1)..(j - 1) : Trace[k].ev # "assign"

\* C8: a return ends the innermost active call and only that one: the call
\* yields the returned value at once (null when the return gives no value,
\* and null when the body ends without a return), nothing of that call's
\* body runs afterwards, and the caller goes on with its own next operation.
C8_ReturnEndsInnermostCall ==
    /\ \A i \in Events("return") :
           LET e == Trace[i]
           IN  /\ e.call # 0
               /\ ~e.given => e.value = None
               /\ i < Len(Trace)
               /\ Trace[i + 1].ev = "exit"
               /\ Trace[i + 1].id = e.call
               /\ Trace[i + 1].how = "return"
               /\ Trace[i + 1].value = e.value
               /\ \A j \in (i + 2)..Len(Trace) : Trace[j].call # e.call
               /\ CallOf(e.call).call # 0 =>
                      /\ i + 2 <= Len(Trace)
                      /\ Trace[i + 2].call = CallOf(e.call).call
                      /\ Trace[i + 2].ev = "exit" => Trace[i + 2].how # "return"
    /\ \A i \in Events("exit") :
           /\ Trace[i].how = "return" =>
                  /\ i > 1
                  /\ Trace[i - 1].ev = "return"
                  /\ Trace[i - 1].call = Trace[i].id
           /\ Trace[i].how = "end" => Trace[i].value = None
           /\ Trace[i].environment = CallOf(Trace[i].id).caller_env
    /\ last.raised # "Return"

\* A return three or more statements deep in the body of a function that was
\* called from another function's body, which then goes on.
C8_Witness ==
    \E i \in Events("return") :
        /\ Trace[i].nest >= 3
        /\ CallOf(Trace[i].call).call # 0
        /\ i + 2 <= Len(Trace)
        /\ Trace[i + 2].ev = "define"
        /\ Trace[i + 2].value = Trace[i].value

\* C9: an assignment to a name rewrites the binding of the innermost frame
\* of the current chain that binds the name and changes nothing else (no
\* other frame, no other name, no new binding); when no frame of the chain
\* binds the name it raises the undefined-variable error and changes nothing.
C9_AssignRewritesInnermostBinding ==
    \A i \in Events("assign") :
        LET e == Trace[i]
            chain == FrameChain(e.before, e.env)
        IN  IF Binders(e.before, chain, e.name) # {}
            THEN /\ e.raised = ""
                 /\ e.after = [e.before EXCEPT
                                  ![Innermost(e.before, chain, e.name)].values[e.name]
                                      = e.value]
            ELSE /\ e.raised = "RuntimeError"
                 /\ e.exc = Undefined(e.name)
                 /\ e.after = e.before

\* An assignment made in an inner frame that rewrites a binding of an outer
\* frame, to a new value.
C9_Witness ==
    \E i \in Events("assign") :
        LET e == Trace[i]
            chain == FrameChain(e.before, e.env)
        IN  /\ Binders(e.before, chain, e.name) # {}
            /\ Innermost(e.before, chain, e.name) # e.env
            /\ e.after # e.before
            /\ e.raised = ""

\* C10: a lookup returns the value bound in the innermost frame of the chain
\* that defines the name, and raises the undefined-variable error exactly
\* when no frame of the chain defines it.
C10_LookupFindsInnermostBinding ==
    \A i \in Events("get") : Resolves(Trace[i], Trace[i].env)

\* A lookup of a name that two frames of the chain define with different
\* values.
C10_Witness ==
    \E i \in Events("get") :
        LET e == Trace[i]
            chain == FrameChain(e.frames, e.env)
        IN  /\ Trace[i].raised = ""
            /\ \E k, l \in Binders(e.frames, chain, e.name) :
                   /\ k < l
                   /\ e.frames[chain[k]].values[e.name] # e.frames[chain[l]].values[e.name]
                   /\ e.value = e.frames[chain[k]].values[e.name]


(***************************************************************************)
(* Properties of programs run from a fresh interpreter (specification      *)
(* RunSpec).                                                               *)
(***************************************************************************)
Ran == pc = "ran"

Bound(name) == name \in DOMAIN interp.frames[interp.globals].values

\* The value the globals bind the name to after the run (None when unbound).
Global(name) ==
    IF Bound(name) THEN interp.frames[interp.globals].values[name] ELSE None

\* A program `<function declaration> let r = <name>(<arguments>); ...`.
IsArityProgram ==
    /\ Ran
    /\ Len(program) = 3
    /\ program[1].node = "FunctionDeclaration"
    /\ program[2].node = "VariableDeclaration"
    /\ program[2].initializer.node = "CallExpression"
    /\ program[2].initializer.callee = Identifier(program[1].name)

\* C11: a call of a user function with a number of arguments different
\* from its parameter count raises a runtime error naming the expected and
\* the actual count, and the function body does not run (nor does anything
\* after the call).
C11_ArityMismatchRaises ==
    (IsArityProgram
     /\ Len(program[2].initializer.arguments) # Len(program[1].parameters))
        => (/\ last.raised = "RuntimeError"
            /\ last.exc = [message |-> "Expected arguments but got",
                           detail |-> <<Len(program[1].parameters),
                                        Len(program[2].initializer.arguments)>>]
            /\ Events("call") = {}
            /\ interp.output = <<>>
            /\ ~Bound(N("r")))

\* A two-parameter function called with three arguments, refused.
C11_Witness ==
    /\ IsArityProgram
    /\ Len(program[1].parameters) = 2
    /\ Len(program[2].initializer.arguments) = 3
    /\ last.raised = "RuntimeError"
    /\ last.exc.detail = <<2, 3>>

\* A program `let r = <left> <op> <right>;` of two literals.
IsBinaryProgram ==
    /\ Ran
    /\ Len(program) = 1
    /\ program[1].node = "VariableDeclaration"
    /\ program[1].initializer.node = "BinaryExpression"
    /\ program[1].initializer.left.node = "Literal"
    /\ program[1].initializer.right.node = "Literal"

LeftOf(p) == p[1].initializer.left.value

RightOf(p) == p[1].initializer.right.value

OpOf(p) == p[1].initializer.operator

IsZero(value) == value.t \in {"int", "float"} /\ Rat(value)[1] = 0

\* C12: `a / b` and `a % b` with b zero raise a runtime error, whatever a
\* is, and produce no value.
C12_ZeroDivisorRaises ==
    (IsBinaryProgram /\ OpOf(program) \in {<<"/">>, <<"%">>}
                     /\ IsZero(RightOf(program)))
        => (last.raised = "RuntimeError" /\ ~Bound(N("r")))

\* 7 / 0 was evaluated and refused as a division by zero.
C12_Witness ==
    /\ IsBinaryProgram
    /\ OpOf(program) = <<"/">>
    /\ LeftOf(program).t = "int" /\ LeftOf(program).v = 7
    /\ RightOf(program).t = "int" /\ RightOf(program).v = 0
    /\ last = [raised |-> "RuntimeError", exc |-> Message("Division by zero")]

\* A Hixa number: an int or a float literal (true and false are booleans).
IsHixaNumber(value) == value.t \in {"int", "float"}

\* C13: `+` yields a value only for two numbers or two strings, and `-`,
\* `*`, `/`, `%` only for two numbers; every other combination of operand
\* types, a boolean or null paired with a number included, raises a runtime
\* error.
C13_OtherOperandTypesRaise ==
    (IsBinaryProgram
     /\ ~(IsHixaNumber(LeftOf(program)) /\ IsHixaNumber(RightOf(program)))
     /\ ~(/\ OpOf(program) = <<"+">>
          /\ LeftOf(program).t = "str"
          /\ RightOf(program).t = "str"))
        => (last.raised = "RuntimeError" /\ ~Bound(N("r")))

\* A program `let t = 0; if (<literal>) { t = 1; } [else { t = 2; }]`.
IsIfProgram ==
    /\ Ran
    /\ Len(program) = 2
    /\ program[2].node = "IfStatement"
    /\ program[2].condition.node = "Literal"

\* The condition values the language calls false.
IsFalsy(value) ==
    \/ value.t = "NoneType"
    \/ value.t = "bool" /\ ~value.v
    \/ value.t = "int" /\ value.v = 0
    \/ value.t = "str" /\ value.v = <<>>

\* C14: an `if` whose condition is null, false, 0 or "" skips the
\* then-branch and runs the else-branch when there is one; any other
\* condition value takes the then-branch.
C14_FalsyConditionSkipsThen ==
    IsIfProgram
        => (/\ last.raised = ""
            /\ Global(N("t")).v =
                  IF ~IsFalsy(program[2].condition.value) THEN 1
                  ELSE IF program[2].else_branch.node # "None" THEN 2 ELSE 0)

\* A program `fn a() {...} fn b() {...} let r = a() <op> b();`.
IsLogicalProgram ==
    /\ Ran
    /\ Len(program) = 3
    /\ program[3].node = "VariableDeclaration"
    /\ program[3].initializer.node = "BinaryExpression"
    /\ program[3].initializer.operator \in {<<"&", "&">>, <<"|", "|">>}

\* What the function declared by the node returns.
Returned(decl) == decl.body.statements[2].value.value

\* null is false, a boolean is itself, every other value is true.
Truthiness(value) ==
    IF value.t = "NoneType" THEN FALSE
    ELSE IF value.t = "bool" THEN value.v
    ELSE TRUE

\* C15: `&&` and `||` evaluate both operands, the left one first, whatever
\* the left one yields, and return the boolean and/or of the operands'
\* truthiness.
C15_LogicalOperatorsEvaluateBoth ==
    IsLogicalProgram
        => (/\ last.raised = ""
            /\ interp.output = <<<<PyInt(1)>>, <<PyInt(2)>>>>
            /\ Global(N("r")).t = "bool"
            /\ Global(N("r")).v =
                  IF program[3].initializer.operator = <<"&", "&">>
                  THEN Truthiness(Returned(program[1]))
                       /\ Truthiness(Returned(program[2]))
                  ELSE Truthiness(Returned(program[1]))
                       \/ Truthiness(Returned(program[2])))

\* `a() && b()` with a() returning 0 and b() returning "": both bodies ran
\* and the result is true.
C15_Witness ==
    /\ IsLogicalProgram
    /\ program[3].initializer.operator = <<"&", "&">>
    /\ Returned(program[1]).t = "int" /\ Returned(program[1]).v = 0
    /\ Returned(program[2]).t = "str" /\ Returned(program[2]).v = <<>>
    /\ Len(interp.output) = 2
    /\ Global(N("r")).t = "bool" /\ Global(N("r")).v

\* A program whose last statement is print(2) and that has no other print.
EndsWithPrint ==
    /\ Ran
    /\ program[Len(program)] = CallPrint(IntLit(2))
    /\ program[1].node # "FunctionDeclaration"

\* C16: every failure of a program reaches the caller of interpret() as a
\* RuntimeError; nothing else escapes, and the statements after the
\* failing one are not executed.
C16_OnlyRuntimeErrorsEscape ==
    Ran => (/\ last.raised \in {"", "RuntimeError"}
            /\ (EndsWithPrint /\ last.raised # "") => interp.output = <<>>)

\* A program `let a = <array or object literal>; let b = a; <mutation>;
\* let n = <read>;`.
IsAliasProgram ==
    /\ Ran
    /\ Len(program) = 4
    /\ program[1].node = "VariableDeclaration"
    /\ program[1].initializer.node \in {"ArrayExpression", "ObjectExpression"}
    /\ program[2].node = "VariableDeclaration"
    /\ program[2].initializer = Identifier(program[1].name)

\* The array half of an alias program behaved as aliasing demands: the
\* append succeeded and the length read through the other name counts it.
ArrayAliasObserved ==
    /\ last.raised = ""
    /\ Global(<<"a">>) = Global(<<"b">>)
    /\ Global(<<"n">>).t = "int"
    /\ Global(<<"n">>).v = Len(program[1].initializer.elements) + 1

\* C23: when two variables are bound to the same array or object, an append
\* through one, or a property assignment `o.k = v` through one, succeeds and
\* is observed by the read through the other.
C23_MutationSeenThroughAlias ==
    IsAliasProgram
        => IF program[1].initializer.node = "ArrayExpression"
           THEN ArrayAliasObserved
           ELSE /\ last.raised = ""
                /\ Bound(<<"r">>)
                /\ Global(<<"r">>).t = evaluate(Interpreter, program[3].value).value.t
                /\ Global(<<"r">>).v = evaluate(Interpreter, program[3].value).value.v

\* A program `[let x = 1;] <block or function with an inner let x, let y>
\* let r = x; let q = y;`.
IsScopeProgram ==
    /\ Ran
    /\ Len(program) >= 3
    /\ program[Len(program)].node = "VariableDeclaration"
    /\ program[Len(program)].name = <<"q">>
    /\ program[Len(program) - 1].node = "VariableDeclaration"
    /\ program[Len(program) - 1].name = <<"r">>

OuterDeclared == program[1].node = "VariableDeclaration" /\ program[1].name = <<"x">>

\* The statements of the inner scope of a scope program.
InnerOf ==
    LET k == IF OuterDeclared THEN 2 ELSE 1
    IN  IF program[k].node = "BlockStatement" THEN program[k].statements
        ELSE program[k].body.statements

\* C26: a `let` inside a block statement or a function body binds the name
\* in the frame created for the block or call; afterwards the name resolves
\* only if the enclosing chain defines it, and an enclosing binding of the
\* same name keeps its value.
C26_InnerLetIsLocal ==
    IsScopeProgram
        => LET inner == evaluate(Interpreter, InnerOf[1].initializer).value
               frame == interp.frames[2]
           IN  /\ Len(interp.frames) = 2
               /\ frame.enclosing = EnvRef(interp.globals)
               /\ DOMAIN frame.values = {<<"x">>, <<"y">>}
               /\ frame.values[<<"x">>] = inner
               /\ interp.output = <<<<inner>>>>
               /\ ~Bound(<<"y">>)
               /\ ~Bound(<<"q">>)
               /\ last.raised = "RuntimeError"
               /\ IF OuterDeclared
                  THEN /\ Global(<<"x">>) = PyInt(1)
                       /\ Global(<<"r">>) = PyInt(1)
                       /\ last.exc = Undefined(<<"y">>)
                  ELSE /\ ~Bound(<<"x">>)
                       /\ ~Bound(<<"r">>)
                       /\ last.exc = Undefined(<<"x">>)

\* A function body has shadowed the global x with a boolean and returned.
C26_Witness ==
    /\ IsScopeProgram
    /\ OuterDeclared
    /\ program[2].node = "FunctionDeclaration"
    /\ Len(interp.output) = 1
    /\ interp.output[1][1].t = "bool"
    /\ Global(<<"x">>).t = "int"
    /\ Global(<<"x">>).v = 1

\* The entries and exits of blocks and calls, in order.
Scopes == interp.scopes

Leaves == {j \in 1..Len(Scopes) : Scopes[j].ev = "leave"}

\* The position at which the block or call that leaves at position j was
\* entered.
EnterOf(j) ==
    CHOOSE i \in 1..j : Scopes[i].ev = "enter" /\ Scopes[i].frame = Scopes[j].frame

\* The frame was created for a call of a user function (else for a block
\* statement).
IsCallFrame(frame) == \E i \in Events("call") : Trace[i].frame = frame

\* C30: when a block statement or a call of a user function finishes, by
\* reaching its end, by a return or by an error, the current environment is
\* the frame that was current just before it started; after interpret
\* returns or raises, the current environment is the global frame.
C30_EnvironmentRestored ==
    /\ interp.environment = interp.globals
    /\ \A j \in Leaves :
           /\ \E i \in 1..j : Scopes[i].ev = "enter" /\ Scopes[i].frame = Scopes[j].frame
           /\ Scopes[j].environment = Scopes[EnterOf(j)].previous
           /\ Scopes[j].environment # Scopes[j].frame

\* `fn w() { { y; } } w();` has run: the error left the block and the call,
\* and the current environment is the global frame again.
C30_Witness ==
    /\ Ran
    /\ last.raised = "RuntimeError"
    /\ \E j \in Leaves :
           /\ Scopes[j].how = "RuntimeError"
           /\ ~IsCallFrame(Scopes[j].frame)
           /\ Scopes[j].environment # interp.globals
    /\ \E j \in Leaves :
           /\ Scopes[j].how = "RuntimeError"
           /\ IsCallFrame(Scopes[j].frame)
           /\ Scopes[j].environment = interp.globals
    /\ interp.environment = interp.globals
====
